---- MODULE Spec2Model ----
(***************************************************************************)
(* Model of the Bluetooth LE Audio channel core                            *)
(* (subsys/bluetooth/host/audio/chan.c): the ASE protocol operations, the  *)
(* table of channels listening for an inbound CIS (enabling[]), the        *)
(* transition of a channel to idle and the peer links.                     *)
(*                                                                         *)
(* Every C function is an operator from a state record                     *)
(*    s = [chan, ep, enabling, server, groups, cbs, idled, disc]           *)
(* (plus its arguments and the outcomes of the external calls it makes) to *)
(* a result [s |-> the state after, ret |-> the returned code].  s.cbs is  *)
(* the trace of capability callbacks the call has invoked, s.idled the     *)
(* channels bt_audio_chan_set_state() has moved to idle during the call    *)
(* and s.disc what bt_audio_chan_disconnect() returned in it ("none" when  *)
(* it was not called).                                                     *)
(***************************************************************************)
EXTENDS Integers, Sequences, FiniteSets, TLC

VARIABLES chan, ep, enabling, server, groups

vars == <<chan, ep, enabling, server, groups>>

(***************************************************************************)
(* Bounds of the model.                                                    *)
(***************************************************************************)
\* ARRAY_SIZE(enabling), that is CONFIG_BT_ISO_MAX_CHAN of the build
MaxIsoChan == 1
\* ARRAY_SIZE(unicast_groups)
UNICAST_GROUP_CNT == 2
\* the number of channels one unicast group takes
UNICAST_GROUP_STREAM_CNT == 2
\* the channel objects the application owns beside the endpoints' ones
MaxSpare == 1

\* a NULL pointer to a connection, endpoint, capability or codec
NULL == "NULL"
\* a NULL pointer to a channel
NOCHAN == 0
\* the application owns one channel object per endpoint: the capability's
\* config callback hands out ChanOf[e] for endpoint e
Chan == {1, 2}
Ep == {"e1", "e2"}
ChanOf == [e \in Ep |-> IF e = "e1" THEN 1 ELSE 2]
\* every operation is exercised with every input on endpoint e1 and its
\* channel; endpoint e2 and its channel are the second party of the pool
\* and of the links, driven with the inputs PeerOps allows
Subject == ChanOf["e1"]
PeerOps == {"config", "qos"}
Users(op) == IF op \in PeerOps THEN Chan ELSE {Subject}
Conn == {"k1", "k2"}
\* the indices of enabling[]: 1..MaxIsoChan but in SpecPool, which takes in
\* the build with one slot more
Slots == DOMAIN enabling
Groups == 1..UNICAST_GROUP_CNT
\* channels no capability hands out: they stay unattached
Spare == (Cardinality(Chan) + 1)..(Cardinality(Chan) + MaxSpare)
AllChan == Chan \cup Spare

(***************************************************************************)
(* Error codes (negative errno values of the C code) and 0.                *)
(***************************************************************************)
OK == "0"
EINVAL == "EINVAL"
EBADMSG == "EBADMSG"
ENOTSUP == "ENOTSUP"
EALREADY == "EALREADY"
ENOTCONN == "ENOTCONN"
ENOSPC == "ENOSPC"
EPERM == "EPERM"
ENOENT == "ENOENT"
ENOMEM == "ENOMEM"
\* no return: an assertion failed
PANIC == "PANIC"
\* any other error a capability callback returns
ECB == "ECB"
\* any error of a transport request
EIO == "EIO"

(***************************************************************************)
(* ASE states, channel states, endpoint kinds.                             *)
(***************************************************************************)
EpStates == {"IDLE", "CONFIG", "QOS", "ENABLING", "STREAMING", "DISABLING",
             "RELEASING"}
ChanStates == {"CHAN_IDLE", "CHAN_CONFIGURED", "CHAN_STREAMING"}
EpTypes == {"LOCAL", "REMOTE", "BROADCAST_SRC", "BROADCAST_SNK"}

\* ep->cig_id, ep->cis_id, which the code of the endpoint sets: both
\* endpoints are configured for the same CIS but in SpecPool, where the
\* second endpoint may be configured for another CIS of the CIG
EpIds == [e \in Ep |-> <<1, 1>>]
\* the identifiers an inbound CIS request may carry
AcceptIds == {<<1, 1>>, <<1, 2>>}

(***************************************************************************)
(* Registered capabilities: role, codec, preferences and the callbacks the *)
(* ops table holds: "bare" has an ops table with no callback in it, "lean" *)
(* one with the config and qos callbacks only.  The source's preferred     *)
(* latency is above the protocol's maximum, the sinks' below it.           *)
(***************************************************************************)
AllOps == {"config", "reconfig", "qos", "enable", "metadata", "disable",
           "start", "stop", "release"}
Caps == {"snk", "src", "bare", "lean"}
CapInfo ==
  [cp \in Caps |->
     [type |-> IF cp = "src" THEN "SOURCE" ELSE "SINK",
      codec |-> "LC3",
      ops |-> CASE cp = "bare" -> {}
                [] cp = "lean" -> {"config", "qos"}
                [] OTHER -> AllOps,
      pref |-> [latency |-> IF cp = "src" THEN 5000 ELSE 100,
                pd_min |-> 10, pd_max |-> 20]]]
\* codecs a caller may pass; the capabilities support LC3 only
Codecs == {"LC3", "VND"}

(***************************************************************************)
(* QoS limits of bt_audio_chan_qos.                                        *)
(***************************************************************************)
QOS_INTERVAL_MIN == 255
QOS_INTERVAL_MAX == 16777215
BT_CODEC_QOS_FRAMED == 1
QOS_PHY_ALL == 7
QOS_SDU_MAX == 4095
QOS_LATENCY_MIN == 5
QOS_LATENCY_MAX == 4000

GoodQos == [interval |-> 10000, framing |-> 0, phy |-> 2, sdu |-> 40,
            latency |-> 10, pd |-> 15]
\* the QoS objects callers pass in Spec: a valid one, one with a bad
\* interval and one whose latency exceeds the capability's preference
QosInputs == {GoodQos,
              [GoodQos EXCEPT !.interval = 254],
              [GoodQos EXCEPT !.latency = 101]}

(***************************************************************************)
(* State records.                                                          *)
(***************************************************************************)
\* a channel as zero-initialised by its owner; qos is <<>> (NULL) or <<q>>
NewChan == [state |-> "CHAN_IDLE", ep |-> NULL, conn |-> NULL, cap |-> NULL,
            codec |-> NULL, qos |-> <<>>, links |-> {}, iso |-> "NULL"]

\* a unicast group as zero-initialised: no member, no CIG.  A CIG is named
\* by the channel whose transport handle is its first CIS.
NewGroup == [chans |-> {}, cig |-> NOCHAN]

Cur == [chan |-> chan, ep |-> ep, enabling |-> enabling, server |-> server,
        groups |-> groups, cbs |-> <<>>, idled |-> {}, disc |-> "none"]

Res(s, r) == [s |-> s, ret |-> r]

\* a capability callback was invoked
Called(s, name) == [s EXCEPT !.cbs = Append(@, name)]

HasOp(cp, name) == name \in CapInfo[cp].ops

(***************************************************************************)
(* Lists (sys_slist).  A list is kept as the set of the objects it holds:  *)
(* the link set of a channel, the membership of a unicast group.           *)
(***************************************************************************)
sys_slist_init == {}

sys_slist_is_empty(list) == list = {}

sys_slist_append(list, node) == list \cup {node}

InList(list, node) == node \in list

\* the list without node, and whether it held it
sys_slist_find_and_remove(list, node) ==
  [list |-> list \ {node}, found |-> InList(list, node)]

(***************************************************************************)
(* Endpoint object (endpoint.c).                                           *)
(***************************************************************************)
bt_audio_ep_set_state(s, e, st) == [s EXCEPT !.ep[e].state = st]

bt_audio_ep_is_broadcast_src(s, e) == s.ep[e].type = "BROADCAST_SRC"

bt_audio_ep_is_broadcast_snk(s, e) == s.ep[e].type = "BROADCAST_SNK"

bt_audio_ep_is_broadcast(s, e) ==
  bt_audio_ep_is_broadcast_src(s, e) \/ bt_audio_ep_is_broadcast_snk(s, e)

\* binds the channel and the endpoint to each other; the channel gets its
\* transport-channel handle on the first attach and keeps it afterwards
bt_audio_ep_attach(s, e, c) ==
  [s EXCEPT !.ep[e].chan = c,
            !.chan[c].ep = e,
            !.chan[c].iso = IF @ = "NULL" THEN "UNBOUND" ELSE @]

bt_audio_ep_detach(s, e, c) ==
  [s EXCEPT !.ep[e].chan = NOCHAN, !.chan[c].ep = NULL]

(***************************************************************************)
(* chan_attach                                                             *)
(***************************************************************************)
chan_attach(s, k, c, e, cp, codec) ==
  bt_audio_ep_attach([s EXCEPT !.chan[c].conn = k,
                               !.chan[c].cap = cp,
                               !.chan[c].codec = codec], e, c)

(***************************************************************************)
(* Listening pool: enabling[]                                              *)
(***************************************************************************)
\* a scan of the pool that finds no entry
scan_finds_nothing(s, c) == FALSE

bt_audio_chan_enabling(s, c) == \E i \in Slots : s.enabling[i] = c

bt_audio_chan_linked(s, c1, c2) ==
  IF c1 = NOCHAN \/ c2 = NOCHAN THEN FALSE
  ELSE IF c1 = c2 THEN TRUE
  ELSE InList(s.chan[c1].links, c2)

\* bt_audio_chan_iso_linked that compares the identifiers only
iso_linked_any_conn(s, c1, c2) ==
  IF c1 = NOCHAN \/ c2 = NOCHAN THEN FALSE
  ELSE s.ep[s.chan[c1].ep].ids = s.ep[s.chan[c2].ep].ids

bt_audio_chan_iso_linked(s, c1, c2) ==
  IF c1 = NOCHAN \/ c2 = NOCHAN THEN FALSE
  ELSE IF s.chan[c1].conn # s.chan[c2].conn THEN FALSE
  ELSE s.ep[s.chan[c1].ep].ids = s.ep[s.chan[c2].ep].ids

\* bt_audio_chan_link that appends to chan1's list only
link_one_way(s, c1, c2) ==
  IF c1 = NOCHAN \/ c2 = NOCHAN THEN Res(s, EINVAL)
  ELSE IF s.chan[c1].state # "CHAN_IDLE" THEN Res(s, EINVAL)
  ELSE IF s.chan[c2].state # "CHAN_IDLE" THEN Res(s, EINVAL)
  ELSE IF bt_audio_chan_linked(s, c1, c2) THEN Res(s, EALREADY)
  ELSE Res([s EXCEPT !.chan[c1].links = sys_slist_append(@, c2)], OK)

bt_audio_chan_link(s, c1, c2) ==
  IF c1 = NOCHAN \/ c2 = NOCHAN THEN Res(s, EINVAL)
  ELSE IF s.chan[c1].state # "CHAN_IDLE" THEN Res(s, EINVAL)
  ELSE IF s.chan[c2].state # "CHAN_IDLE" THEN Res(s, EINVAL)
  ELSE IF bt_audio_chan_linked(s, c1, c2) THEN Res(s, EALREADY)
  ELSE Res([s EXCEPT !.chan[c1].links = sys_slist_append(@, c2),
                     !.chan[c2].links = sys_slist_append(@, c1)], OK)

\* the slots the scan of bt_audio_chan_iso_listen returns at
ListenHits(s, c) ==
  {i \in Slots : s.enabling[i] = c
                 \/ bt_audio_chan_iso_linked(s, s.enabling[i], c)}

FreeSlots(s) == {i \in Slots : s.enabling[i] = NOCHAN}

Min(S) == CHOOSE x \in S : \A y \in S : x <= y

\* bt_audio_chan_iso_listen that takes the last free slot
listen_last_free_slot(s, c, reg) ==
  IF ~s.server /\ reg # OK THEN Res(s, reg)
  ELSE
    LET s1 == [s EXCEPT !.server = TRUE]
        last == CHOOSE i \in FreeSlots(s1) : \A j \in FreeSlots(s1) : j <= i
    IN
    IF ListenHits(s1, c) # {}
      THEN LET i == Min(ListenHits(s1, c)) IN
           IF s1.enabling[i] = c THEN Res(s1, OK)
           ELSE Res(bt_audio_chan_link(s1, s1.enabling[i], c).s, OK)
    ELSE IF FreeSlots(s1) # {}
      THEN Res([s1 EXCEPT !.enabling[last] = c], OK)
    ELSE Res(s1, ENOSPC)

\* bt_audio_chan_iso_listen that registers the server and takes no slot
listen_without_slot(s, c, reg) == Res([s EXCEPT !.server = TRUE], OK)

\* reg: the outcome of bt_iso_server_register, called while the static
\* flag "server" is still false
bt_audio_chan_iso_listen(s, c, reg) ==
  IF ~s.server /\ reg # OK THEN Res(s, reg)
  ELSE
    LET s1 == [s EXCEPT !.server = TRUE] IN
    IF ListenHits(s1, c) # {}
      THEN LET i == Min(ListenHits(s1, c)) IN
           IF s1.enabling[i] = c THEN Res(s1, OK)
           ELSE Res(bt_audio_chan_link(s1, s1.enabling[i], c).s, OK)
    ELSE IF FreeSlots(s1) # {}
      THEN Res([s1 EXCEPT !.enabling[Min(FreeSlots(s1))] = c], OK)
    ELSE Res(s1, ENOSPC)

\* the first slot whose channel's endpoint carries the identifiers, or 0
AcceptSlot(s, ids) ==
  LET hit == {i \in Slots : s.enabling[i] # NOCHAN
                            /\ s.ep[s.chan[s.enabling[i]].ep].ids = ids} IN
  IF hit = {} THEN 0 ELSE Min(hit)

\* bt_audio_chan_iso_accept that leaves the entry in the pool
accept_keeping_entry(s, ids) ==
  LET i == AcceptSlot(s, ids) IN
  IF i = 0 THEN [s |-> s, ret |-> EPERM, iso |-> NOCHAN]
  ELSE [s |-> [s EXCEPT !.chan[s.enabling[i]].iso = "BOUND"],
        ret |-> OK, iso |-> s.enabling[i]]

\* on a match the entry is consumed and the channel's transport handle is
\* handed to the transport (iso: the channel whose handle it is), which
\* binds the accepted CIS to it
bt_audio_chan_iso_accept(s, ids) ==
  LET i == AcceptSlot(s, ids) IN
  IF i = 0 THEN [s |-> s, ret |-> EPERM, iso |-> NOCHAN]
  ELSE [s |-> [s EXCEPT !.enabling[i] = NOCHAN,
                        !.chan[s.enabling[i]].iso = "BOUND"],
        ret |-> OK, iso |-> s.enabling[i]]

(***************************************************************************)
(* Disconnect and the transition to idle                                   *)
(***************************************************************************)
StopListening(s, c) ==
  [s EXCEPT !.enabling = [i \in Slots |-> IF s.enabling[i] = c THEN NOCHAN
                                           ELSE s.enabling[i]]]

\* bt_audio_chan_disconnect that looks for the binding before it clears
\* the channel's slot
disconnect_checking_first(s, c, disc) ==
  IF s.chan[c].iso # "BOUND"
    THEN Res([s EXCEPT !.disc = ENOTCONN], ENOTCONN)
  ELSE Res([StopListening(s, c) EXCEPT !.disc = disc], disc)

\* disc: the outcome of bt_iso_chan_disconnect (a request; the binding
\* goes away when the transport later reports the disconnection)
bt_audio_chan_disconnect(s, c, disc) ==
  LET s1 == StopListening(s, c) IN
  IF s1.chan[c].iso # "BOUND"
    THEN Res([s1 EXCEPT !.disc = ENOTCONN], ENOTCONN)
  ELSE Res([s1 EXCEPT !.disc = disc], disc)

\* chan_detach without the call of bt_audio_chan_disconnect
detach_keeping_slot(s, c) ==
  LET s1 == bt_audio_ep_detach(s, s.chan[c].ep, c)
  IN [s1 EXCEPT !.chan[c].conn = NULL,
                !.chan[c].cap = NULL,
                !.chan[c].codec = NULL]

chan_detach(s, c) ==
  LET is_broadcast == bt_audio_ep_is_broadcast(s, s.chan[c].ep)
      s1 == bt_audio_ep_detach(s, s.chan[c].ep, c)
      s2 == [s1 EXCEPT !.chan[c].conn = NULL,
                       !.chan[c].cap = NULL,
                       !.chan[c].codec = NULL]
  IN IF ~is_broadcast THEN bt_audio_chan_disconnect(s2, c, OK).s ELSE s2

bt_audio_chan_set_state(s, c, st) ==
  LET s1 == IF st = "CHAN_IDLE"
              THEN [chan_detach(s, c) EXCEPT !.idled = @ \cup {c}]
              ELSE s
  IN [s1 EXCEPT !.chan[c].state = st]

(***************************************************************************)
(* Protocol operations.  cb, cb2: what the capability callbacks return     *)
(* (OK or an error); disc, reg: the outcomes of the transport's disconnect *)
(* request and of the registration of the ISO server.                      *)
(***************************************************************************)
\* the checks every operation on a channel starts with
\* (!chan->ep, !chan->cap; every capability has an ops table)
NoEp(s, c) == s.chan[c].ep = NULL

NoCap(s, c) == s.chan[c].cap = NULL

EpOf(s, c) == s.ep[s.chan[c].ep]

IsLocal(s, c) == EpOf(s, c).type = "LOCAL"

SetEp(s, c, st) == bt_audio_ep_set_state(s, s.chan[c].ep, st)

\* found: the channel the capability's config callback returns, or NOCHAN
bt_audio_chan_config(s, k, e, cp, codec, found) ==
  IF k = NULL \/ cp = NULL \/ codec = NULL THEN Res(s, NOCHAN)
  ELSE IF s.ep[e].state \notin {"IDLE", "CONFIG", "QOS"} THEN Res(s, NOCHAN)
  ELSE IF CapInfo[cp].codec # codec THEN Res(s, NOCHAN)
  ELSE IF ~HasOp(cp, "config") THEN Res(s, NOCHAN)
  ELSE
    LET s1 == Called(s, "config") IN
    IF found = NOCHAN THEN Res(s1, NOCHAN)
    ELSE
      LET s2 == [s1 EXCEPT !.chan[found].links = sys_slist_init]
          s3 == chan_attach(s2, k, found, e, cp, codec)
      IN Res(IF s3.ep[e].type = "LOCAL"
               THEN bt_audio_ep_set_state(s3, e, "CONFIG") ELSE s3,
             found)

\* bt_audio_chan_reconfig that attaches before it invokes the callback
reconfig_attaching_first(s, c, cp, codec, cb) ==
  IF NoEp(s, c) THEN Res(s, EINVAL)
  ELSE IF codec = NULL THEN Res(s, EINVAL)
  ELSE IF bt_audio_ep_is_broadcast_src(s, s.chan[c].ep) THEN Res(s, EINVAL)
  ELSE IF bt_audio_ep_is_broadcast_snk(s, s.chan[c].ep) THEN Res(s, EINVAL)
  ELSE IF NoCap(s, c) THEN Res(s, EINVAL)
  ELSE IF EpOf(s, c).state \notin {"IDLE", "CONFIG", "QOS"}
    THEN Res(s, EBADMSG)
  ELSE IF CapInfo[cp].codec # codec THEN Res(s, ENOTSUP)
  ELSE
    LET s0 == chan_attach(s, s.chan[c].conn, c, s.chan[c].ep, cp, codec)
        s1 == IF HasOp(cp, "reconfig") THEN Called(s0, "reconfig") ELSE s0
    IN IF HasOp(cp, "reconfig") /\ cb # OK THEN Res(s1, cb)
       ELSE Res(IF IsLocal(s1, c) THEN SetEp(s1, c, "CONFIG") ELSE s1, OK)

bt_audio_chan_reconfig(s, c, cp, codec, cb) ==
  IF NoEp(s, c) THEN Res(s, EINVAL)
  ELSE IF codec = NULL THEN Res(s, EINVAL)
  ELSE IF bt_audio_ep_is_broadcast_src(s, s.chan[c].ep) THEN Res(s, EINVAL)
  ELSE IF bt_audio_ep_is_broadcast_snk(s, s.chan[c].ep) THEN Res(s, EINVAL)
  ELSE IF NoCap(s, c) THEN Res(s, EINVAL)
  ELSE IF EpOf(s, c).state \notin {"IDLE", "CONFIG", "QOS"}
    THEN Res(s, EBADMSG)
  ELSE IF CapInfo[cp].codec # codec THEN Res(s, ENOTSUP)
  ELSE IF HasOp(cp, "reconfig") /\ cb # OK
    THEN Res(Called(s, "reconfig"), cb)
  ELSE
    LET s1 == IF HasOp(cp, "reconfig") THEN Called(s, "reconfig") ELSE s
        s2 == chan_attach(s1, s1.chan[c].conn, c, s1.chan[c].ep, cp, codec)
    IN Res(IF IsLocal(s2, c) THEN SetEp(s2, c, "CONFIG") ELSE s2, OK)

IN_RANGE(min, max, value) == value >= min /\ value <= max

\* the field checks with an interval range that is open at its lower end
qos_check_open_interval(q, pref) ==
  IF q.interval <= QOS_INTERVAL_MIN \/ q.interval > QOS_INTERVAL_MAX
    THEN [ok |-> FALSE, qos |-> [q EXCEPT !.interval = 0]]
  ELSE IF q.framing > BT_CODEC_QOS_FRAMED
    THEN [ok |-> FALSE, qos |-> [q EXCEPT !.framing = 255]]
  ELSE IF q.phy = 0 \/ q.phy > QOS_PHY_ALL
    THEN [ok |-> FALSE, qos |-> [q EXCEPT !.phy = 0]]
  ELSE IF q.sdu > QOS_SDU_MAX
    THEN [ok |-> FALSE, qos |-> [q EXCEPT !.sdu = 65535]]
  ELSE IF q.latency < QOS_LATENCY_MIN \/ q.latency > QOS_LATENCY_MAX
    THEN [ok |-> FALSE, qos |-> [q EXCEPT !.latency = 0]]
  ELSE IF pref.latency < q.latency
    THEN [ok |-> FALSE, qos |-> [q EXCEPT !.latency = 0]]
  ELSE IF ~IN_RANGE(pref.pd_min, pref.pd_max, q.pd)
    THEN [ok |-> FALSE, qos |-> [q EXCEPT !.pd = 0]]
  ELSE [ok |-> TRUE, qos |-> q]

\* the field checks of bt_audio_chan_qos, in the order of the code: the
\* QoS object after the call and whether it was accepted
QosCheck(q, pref) ==
  IF q.interval < QOS_INTERVAL_MIN \/ q.interval > QOS_INTERVAL_MAX
    THEN [ok |-> FALSE, qos |-> [q EXCEPT !.interval = 0]]
  ELSE IF q.framing > BT_CODEC_QOS_FRAMED
    THEN [ok |-> FALSE, qos |-> [q EXCEPT !.framing = 255]]
  ELSE IF q.phy = 0 \/ q.phy > QOS_PHY_ALL
    THEN [ok |-> FALSE, qos |-> [q EXCEPT !.phy = 0]]
  ELSE IF q.sdu > QOS_SDU_MAX
    THEN [ok |-> FALSE, qos |-> [q EXCEPT !.sdu = 65535]]
  ELSE IF q.latency < QOS_LATENCY_MIN \/ q.latency > QOS_LATENCY_MAX
    THEN [ok |-> FALSE, qos |-> [q EXCEPT !.latency = 0]]
  ELSE IF pref.latency < q.latency
    THEN [ok |-> FALSE, qos |-> [q EXCEPT !.latency = 0]]
  ELSE IF ~IN_RANGE(pref.pd_min, pref.pd_max, q.pd)
    THEN [ok |-> FALSE, qos |-> [q EXCEPT !.pd = 0]]
  ELSE [ok |-> TRUE, qos |-> q]

\* bt_audio_chan_qos that moves the endpoint and listens whatever the kind
\* of the endpoint
qos_on_any_endpoint(s, c, q, cb, reg) ==
  IF NoEp(s, c) \/ NoCap(s, c) THEN [s |-> s, ret |-> EINVAL, qos |-> q]
  ELSE IF bt_audio_ep_is_broadcast(s, s.chan[c].ep)
    THEN [s |-> s, ret |-> EINVAL, qos |-> q]
  ELSE IF EpOf(s, c).state \notin {"CONFIG", "QOS"}
    THEN [s |-> s, ret |-> EBADMSG, qos |-> q]
  ELSE
    LET chk == QosCheck(q, CapInfo[s.chan[c].cap].pref) IN
    IF ~chk.ok THEN [s |-> s, ret |-> ENOTSUP, qos |-> chk.qos]
    ELSE IF ~HasOp(s.chan[c].cap, "qos") THEN [s |-> s, ret |-> OK, qos |-> q]
    ELSE IF cb # OK THEN [s |-> Called(s, "qos"), ret |-> cb, qos |-> q]
    ELSE
      LET s1 == [Called(s, "qos") EXCEPT !.chan[c].qos = <<q>>] IN
      [s |-> bt_audio_chan_iso_listen(SetEp(s1, c, "QOS"), c, reg).s,
       ret |-> OK, qos |-> q]

\* the result carries the caller's QoS object as the call leaves it
bt_audio_chan_qos(s, c, q, cb, reg) ==
  IF NoEp(s, c) \/ NoCap(s, c) THEN [s |-> s, ret |-> EINVAL, qos |-> q]
  ELSE IF bt_audio_ep_is_broadcast(s, s.chan[c].ep)
    THEN [s |-> s, ret |-> EINVAL, qos |-> q]
  ELSE IF EpOf(s, c).state \notin {"CONFIG", "QOS"}
    THEN [s |-> s, ret |-> EBADMSG, qos |-> q]
  ELSE
    LET chk == QosCheck(q, CapInfo[s.chan[c].cap].pref) IN
    IF ~chk.ok THEN [s |-> s, ret |-> ENOTSUP, qos |-> chk.qos]
    ELSE IF ~HasOp(s.chan[c].cap, "qos") THEN [s |-> s, ret |-> OK, qos |-> q]
    ELSE IF cb # OK THEN [s |-> Called(s, "qos"), ret |-> cb, qos |-> q]
    ELSE
      LET s1 == [Called(s, "qos") EXCEPT !.chan[c].qos = <<q>>] IN
      [s |-> IF IsLocal(s1, c)
               THEN bt_audio_chan_iso_listen(SetEp(s1, c, "QOS"), c, reg).s
               ELSE s1,
       ret |-> OK, qos |-> q]

\* bt_audio_chan_start without the checks of the endpoint's type
start_on_any_endpoint(s, c, cb) ==
  IF NoEp(s, c) THEN Res(s, EINVAL)
  ELSE IF NoCap(s, c) THEN Res(s, EINVAL)
  ELSE IF EpOf(s, c).state # "ENABLING" THEN Res(s, EBADMSG)
  ELSE IF HasOp(s.chan[c].cap, "start") /\ cb # OK
    THEN Res(Called(s, "start"), cb)
  ELSE
    LET s1 == IF HasOp(s.chan[c].cap, "start") THEN Called(s, "start")
              ELSE s
    IN Res(IF IsLocal(s1, c) THEN SetEp(s1, c, "STREAMING") ELSE s1, OK)

bt_audio_chan_start(s, c, cb) ==
  IF NoEp(s, c) THEN Res(s, EINVAL)
  ELSE IF bt_audio_ep_is_broadcast_src(s, s.chan[c].ep) THEN Res(s, EINVAL)
  ELSE IF bt_audio_ep_is_broadcast_snk(s, s.chan[c].ep) THEN Res(s, EINVAL)
  ELSE IF NoCap(s, c) THEN Res(s, EINVAL)
  ELSE IF EpOf(s, c).state # "ENABLING" THEN Res(s, EBADMSG)
  ELSE IF HasOp(s.chan[c].cap, "start") /\ cb # OK
    THEN Res(Called(s, "start"), cb)
  ELSE
    LET s1 == IF HasOp(s.chan[c].cap, "start") THEN Called(s, "start")
              ELSE s
    IN Res(IF IsLocal(s1, c) THEN SetEp(s1, c, "STREAMING") ELSE s1, OK)

\* bt_audio_chan_stop that moves to QoS Configured whatever the disconnect
\* request returns
stop_ignoring_disconnect(s, c, cb, disc, reg) ==
  IF NoEp(s, c) THEN Res(s, EINVAL)
  ELSE IF bt_audio_ep_is_broadcast(s, s.chan[c].ep) THEN Res(s, EINVAL)
  ELSE IF NoCap(s, c) THEN Res(s, EINVAL)
  ELSE IF EpOf(s, c).state # "DISABLING" THEN Res(s, EBADMSG)
  ELSE IF HasOp(s.chan[c].cap, "stop") /\ cb # OK
    THEN Res(Called(s, "stop"), cb)
  ELSE
    LET s1 == IF HasOp(s.chan[c].cap, "stop") THEN Called(s, "stop") ELSE s
    IN IF ~IsLocal(s1, c) THEN Res(s1, OK)
       ELSE
         LET d == bt_audio_chan_disconnect(s1, c, disc) IN
         Res(bt_audio_chan_iso_listen(SetEp(d.s, c, "QOS"), c, reg).s, OK)

bt_audio_chan_stop(s, c, cb, disc, reg) ==
  IF NoEp(s, c) THEN Res(s, EINVAL)
  ELSE IF bt_audio_ep_is_broadcast_src(s, s.chan[c].ep) THEN Res(s, EINVAL)
  ELSE IF bt_audio_ep_is_broadcast_snk(s, s.chan[c].ep) THEN Res(s, EINVAL)
  ELSE IF NoCap(s, c) THEN Res(s, EINVAL)
  ELSE IF EpOf(s, c).state # "DISABLING" THEN Res(s, EBADMSG)
  ELSE IF HasOp(s.chan[c].cap, "stop") /\ cb # OK
    THEN Res(Called(s, "stop"), cb)
  ELSE
    LET s1 == IF HasOp(s.chan[c].cap, "stop") THEN Called(s, "stop") ELSE s
    IN IF ~IsLocal(s1, c) THEN Res(s1, OK)
       ELSE
         LET d == bt_audio_chan_disconnect(s1, c, disc) IN
         IF d.ret = OK THEN Res(d.s, OK)
         ELSE Res(bt_audio_chan_iso_listen(SetEp(d.s, c, "QOS"), c, reg).s,
                  OK)

\* bt_audio_chan_enable that returns at once when the callback is absent
enable_needing_callback(s, c, cb, cb2) ==
  IF NoEp(s, c) \/ NoCap(s, c) THEN Res(s, EINVAL)
  ELSE IF EpOf(s, c).state # "QOS" THEN Res(s, EBADMSG)
  ELSE IF ~HasOp(s.chan[c].cap, "enable") THEN Res(s, OK)
  ELSE IF cb # OK THEN Res(Called(s, "enable"), cb)
  ELSE
    LET s1 == Called(s, "enable")
    IN IF ~IsLocal(s1, c) THEN Res(s1, OK)
       ELSE
         LET s2 == SetEp(s1, c, "ENABLING") IN
         IF bt_audio_chan_enabling(s2, c) THEN Res(s2, OK)
         ELSE IF CapInfo[s2.chan[c].cap].type = "SOURCE" THEN Res(s2, OK)
         ELSE bt_audio_chan_start(s2, c, cb2)

bt_audio_chan_enable(s, c, cb, cb2) ==
  IF NoEp(s, c) \/ NoCap(s, c) THEN Res(s, EINVAL)
  ELSE IF EpOf(s, c).state # "QOS" THEN Res(s, EBADMSG)
  ELSE IF HasOp(s.chan[c].cap, "enable") /\ cb # OK
    THEN Res(Called(s, "enable"), cb)
  ELSE
    LET s1 == IF HasOp(s.chan[c].cap, "enable") THEN Called(s, "enable")
              ELSE s
    IN IF ~IsLocal(s1, c) THEN Res(s1, OK)
       ELSE
         LET s2 == SetEp(s1, c, "ENABLING") IN
         IF bt_audio_chan_enabling(s2, c) THEN Res(s2, OK)
         ELSE IF CapInfo[s2.chan[c].cap].type = "SOURCE" THEN Res(s2, OK)
         ELSE bt_audio_chan_start(s2, c, cb2)

\* bt_audio_chan_metadata without the check of the endpoint's state
metadata_in_any_state(s, c, cb) ==
  IF NoEp(s, c) \/ NoCap(s, c) THEN Res(s, EINVAL)
  ELSE IF HasOp(s.chan[c].cap, "metadata") /\ cb # OK
    THEN Res(Called(s, "metadata"), cb)
  ELSE
    LET s1 == IF HasOp(s.chan[c].cap, "metadata") THEN Called(s, "metadata")
              ELSE s
    IN IF ~IsLocal(s1, c) THEN Res(s1, OK)
       ELSE Res(SetEp(s1, c, EpOf(s1, c).state), OK)

bt_audio_chan_metadata(s, c, cb) ==
  IF NoEp(s, c) \/ NoCap(s, c) THEN Res(s, EINVAL)
  ELSE IF EpOf(s, c).state \notin {"ENABLING", "STREAMING"}
    THEN Res(s, EBADMSG)
  ELSE IF HasOp(s.chan[c].cap, "metadata") /\ cb # OK
    THEN Res(Called(s, "metadata"), cb)
  ELSE
    LET s1 == IF HasOp(s.chan[c].cap, "metadata") THEN Called(s, "metadata")
              ELSE s
    IN IF ~IsLocal(s1, c) THEN Res(s1, OK)
       ELSE Res(SetEp(s1, c, EpOf(s1, c).state), OK)

bt_audio_chan_disable(s, c, cb, cb2, disc, reg) ==
  IF NoEp(s, c) \/ NoCap(s, c) THEN Res(s, EINVAL)
  ELSE IF EpOf(s, c).state \notin {"ENABLING", "STREAMING"}
    THEN Res(s, EBADMSG)
  ELSE IF HasOp(s.chan[c].cap, "disable") /\ cb # OK
    THEN Res(Called(s, "disable"), cb)
  ELSE
    LET s1 == IF HasOp(s.chan[c].cap, "disable") THEN Called(s, "disable")
              ELSE s
    IN IF ~IsLocal(s1, c) THEN Res(s1, OK)
       ELSE
         LET s2 == SetEp(s1, c, "DISABLING") IN
         IF CapInfo[s2.chan[c].cap].type = "SOURCE" THEN Res(s2, OK)
         ELSE bt_audio_chan_stop(s2, c, cb2, disc, reg)

\* bt_audio_chan_release that returns every error of the callback
release_propagating_notconn(s, c, cache, cb) ==
  IF NoEp(s, c) THEN Res(s, EINVAL)
  ELSE IF s.chan[c].state = "CHAN_IDLE" THEN Res(s, EALREADY)
  ELSE IF bt_audio_ep_is_broadcast_src(s, s.chan[c].ep) THEN Res(s, EINVAL)
  ELSE IF bt_audio_ep_is_broadcast_snk(s, s.chan[c].ep) THEN Res(s, EINVAL)
  ELSE IF NoCap(s, c) THEN Res(s, EINVAL)
  ELSE IF EpOf(s, c).state \notin {"CONFIG", "QOS", "ENABLING", "STREAMING",
                                   "DISABLING"}
    THEN Res(s, EBADMSG)
  ELSE IF HasOp(s.chan[c].cap, "release") /\ cb # OK
    THEN Res(Called(s, "release"), cb)
  ELSE
    LET s1 == IF HasOp(s.chan[c].cap, "release") THEN Called(s, "release")
              ELSE s
    IN IF ~IsLocal(s1, c) THEN Res(s1, OK)
       ELSE Res(SetEp(s1, c, IF cache THEN "CONFIG" ELSE "RELEASING"), OK)

bt_audio_chan_release(s, c, cache, cb) ==
  IF NoEp(s, c) THEN Res(s, EINVAL)
  ELSE IF s.chan[c].state = "CHAN_IDLE" THEN Res(s, EALREADY)
  ELSE IF bt_audio_ep_is_broadcast_src(s, s.chan[c].ep) THEN Res(s, EINVAL)
  ELSE IF bt_audio_ep_is_broadcast_snk(s, s.chan[c].ep) THEN Res(s, EINVAL)
  ELSE IF NoCap(s, c) THEN Res(s, EINVAL)
  ELSE IF EpOf(s, c).state \notin {"CONFIG", "QOS", "ENABLING", "STREAMING",
                                   "DISABLING"}
    THEN Res(s, EBADMSG)
  ELSE IF HasOp(s.chan[c].cap, "release") /\ cb = ENOTCONN
    THEN Res(bt_audio_chan_set_state(Called(s, "release"), c, "CHAN_IDLE"),
             OK)
  ELSE IF HasOp(s.chan[c].cap, "release") /\ cb # OK
    THEN Res(Called(s, "release"), cb)
  ELSE
    LET s1 == IF HasOp(s.chan[c].cap, "release") THEN Called(s, "release")
              ELSE s
    IN IF ~IsLocal(s1, c) THEN Res(s1, OK)
       ELSE Res(SetEp(s1, c, IF cache THEN "CONFIG" ELSE "RELEASING"), OK)

(***************************************************************************)
(* Unlink, the transport groups (CIG) and reset.                           *)
(***************************************************************************)
\* bt_audio_chan_unlink with a target
UnlinkPair(s, c1, c2) ==
  IF s.chan[c1].state # "CHAN_IDLE" THEN Res(s, EINVAL)
  ELSE IF s.chan[c2].state # "CHAN_IDLE" THEN Res(s, EINVAL)
  ELSE
    LET r1 == sys_slist_find_and_remove(s.chan[c1].links, c2)
        s1 == [s EXCEPT !.chan[c1].links = r1.list]
        r2 == sys_slist_find_and_remove(s1.chan[c2].links, c1)
    IN IF ~r1.found THEN Res(s, ENOENT)
       ELSE IF ~r2.found THEN Res(s1, ENOENT)
       ELSE Res([s1 EXCEPT !.chan[c2].links = r2.list], OK)

RECURSIVE UnlinkEach(_, _, _)
\* the loop over chan1's peers, here in the order of their numbers: stops
\* at the first error
UnlinkEach(s, c1, todo) ==
  IF todo = {} THEN Res(s, OK)
  ELSE LET c2 == Min(todo)
           r == UnlinkPair(s, c1, c2)
       IN IF r.ret # OK THEN r ELSE UnlinkEach(r.s, c1, todo \ {c2})

\* with no target the loop leaves chan2 NULL, and the removal that follows
\* it finds no such node
bt_audio_chan_unlink(s, c1, c2) ==
  IF c1 = NOCHAN THEN Res(s, EINVAL)
  ELSE IF s.chan[c1].state # "CHAN_IDLE" THEN Res(s, EINVAL)
  ELSE IF c2 = NOCHAN
    THEN LET r == UnlinkEach(s, c1, s.chan[c1].links) IN
         IF r.ret # OK THEN r ELSE Res(r.s, ENOENT)
  ELSE UnlinkPair(s, c1, c2)

\* the conversion fails on a direction that is none of in, out, both
codec_qos_to_iso_qos(q) ==
  IF q.dir \in {"IN", "OUT", "INOUT"} THEN OK ELSE EINVAL

\* the first group with no CIG, or 0
FreeCig(s) ==
  LET free == {g \in Groups : s.groups[g].cig = NOCHAN} IN
  IF free = {} THEN 0 ELSE Min(free)

\* q: the QoS passed, <<>> for NULL; create: the outcome of
\* bt_iso_cig_create, which binds the channel's transport handle to the
\* CIS of the new CIG.  Returns the CIS's connection object or NULL.
bt_audio_cig_create(s, c, q, create) ==
  IF s.chan[c].iso = "NULL" THEN Res(s, NULL)
  ELSE IF q = <<>> THEN Res(s, NULL)
  ELSE IF s.chan[c].qos # q /\ codec_qos_to_iso_qos(q[1]) # OK
    THEN Res(s, NULL)
  ELSE IF s.chan[c].iso = "UNBOUND"
    THEN IF FreeCig(s) = 0 THEN Res(s, NULL)
         ELSE IF create # OK THEN Res(s, NULL)
         ELSE Res([s EXCEPT !.groups[FreeCig(s)].cig = c,
                            !.chan[c].iso = "BOUND"], "ISO")
  ELSE Res(s, "ISO")

\* the first group whose CIG has the channel's transport handle as its
\* first CIS, or 0
CigOf(s, c) ==
  LET mine == {g \in Groups : s.groups[g].cig = c} IN
  IF mine = {} THEN 0 ELSE Min(mine)

\* term: the outcome of bt_iso_cig_terminate, which releases the CIS
bt_audio_cig_terminate(s, c, term) ==
  IF s.chan[c].iso = "NULL" THEN Res(s, EINVAL)
  ELSE IF CigOf(s, c) = 0 THEN Res(s, OK)
  ELSE IF term # OK THEN Res(s, term)
  ELSE Res([s EXCEPT !.groups[CigOf(s, c)].cig = NOCHAN,
                     !.chan[c].iso = "UNBOUND"], OK)

\* the result of bt_audio_cig_terminate is only logged, that of
\* bt_audio_chan_unlink is dropped
bt_audio_chan_reset(s, c, term) ==
  IF c = NOCHAN THEN s
  ELSE IF s.chan[c].conn = NULL THEN s
  ELSE
    LET s1 == bt_audio_cig_terminate(s, c, term).s
        s2 == bt_audio_chan_unlink(s1, c, NOCHAN).s
    IN bt_audio_chan_set_state(s2, c, "CHAN_IDLE")

(***************************************************************************)
(* Unicast groups.  chans: the array of channels passed, <<>> for NULL or  *)
(* <<a>> for the array a of distinct channels; num_chan: the count passed, *)
(* at most the length of the array; out: whether out_unicast_group is a    *)
(* pointer.  The result's group is what *out_unicast_group holds after the *)
(* call, 0 for NULL.                                                       *)
(***************************************************************************)
GroupRes(s, r, g) == [s |-> s, ret |-> r, group |-> g]

\* the first group whose list of channels is empty, or 0
FreeGroup(s) ==
  LET free == {g \in Groups : sys_slist_is_empty(s.groups[g].chans)} IN
  IF free = {} THEN 0 ELSE Min(free)

GroupMember(st) == st \in {"CHAN_IDLE", "CHAN_CONFIGURED"}

RECURSIVE GroupCleanup(_, _, _, _)
\* the loop that removes chans[1..i-1] from the group again
GroupCleanup(s, g, chans, j) ==
  IF j = 0 THEN s
  ELSE GroupCleanup(
         [s EXCEPT !.groups[g].chans =
                      sys_slist_find_and_remove(@, chans[j]).list],
         g, chans, j - 1)

RECURSIVE GroupAdd(_, _, _, _, _)
\* the loop over chans[i..num_chan]
GroupAdd(s, g, chans, i, num_chan) ==
  IF i > num_chan THEN GroupRes(s, OK, g)
  ELSE IF ~GroupMember(s.chan[chans[i]].state)
    THEN GroupRes(GroupCleanup(s, g, chans, i - 1), EALREADY, 0)
  ELSE GroupAdd([s EXCEPT !.groups[g].chans = sys_slist_append(@, chans[i])],
                g, chans, i + 1, num_chan)

\* bt_audio_unicast_group_create that takes a slot before it checks the
\* count
group_create_late_check(s, chans, num_chan, out) ==
  IF ~out THEN GroupRes(s, EINVAL, 0)
  ELSE IF chans = <<>> THEN GroupRes(s, EINVAL, 0)
  ELSE IF FreeGroup(s) = 0 THEN GroupRes(s, ENOMEM, 0)
  ELSE IF num_chan > UNICAST_GROUP_STREAM_CNT
    THEN GroupRes([s EXCEPT !.groups[FreeGroup(s)].chans =
                              sys_slist_append(@, chans[1][1])], EINVAL, 0)
  ELSE GroupAdd(s, FreeGroup(s), chans[1], 1, num_chan)

bt_audio_unicast_group_create(s, chans, num_chan, out) ==
  IF ~out THEN GroupRes(s, EINVAL, 0)
  ELSE IF chans = <<>> THEN GroupRes(s, EINVAL, 0)
  ELSE IF num_chan > UNICAST_GROUP_STREAM_CNT THEN GroupRes(s, EINVAL, 0)
  ELSE IF FreeGroup(s) = 0 THEN GroupRes(s, ENOMEM, 0)
  ELSE GroupAdd(s, FreeGroup(s), chans[1], 1, num_chan)

\* bt_audio_unicast_group_delete that does not look at the members
group_delete_unchecked(s, g, asserts) ==
  IF g = 0 THEN Res(s, EINVAL)
  ELSE IF asserts /\ s.groups[g].cig # NOCHAN THEN Res(s, PANIC)
  ELSE Res([s EXCEPT !.groups[g] = NewGroup], OK)

\* g: the group passed, 0 for NULL; asserts: whether the build compiles
\* __ASSERT in.  A failed assertion halts the system: the call does not
\* return (PANIC).
bt_audio_unicast_group_delete(s, g, asserts) ==
  IF g = 0 THEN Res(s, EINVAL)
  ELSE IF \E c \in s.groups[g].chans : ~GroupMember(s.chan[c].state)
    THEN Res(s, EINVAL)
  ELSE IF asserts /\ s.groups[g].cig # NOCHAN THEN Res(s, PANIC)
  ELSE Res([s EXCEPT !.groups[g] = NewGroup], OK)

(***************************************************************************)
(* The state machine: one action per entry point.  A call that fails       *)
(* without an effect leaves the state as it is.                            *)
(***************************************************************************)
CbOut == {OK, ECB}
ReleaseOut == {OK, ECB, ENOTCONN}
DiscOut == {OK, EIO}
RegOut == {OK, EIO}
TermOut == {OK, EIO}

\* The outcomes of the external calls one operation makes, in the order it
\* makes them: the operation's callback, the callback of the operation it
\* runs autonomously, the disconnect request, the registration of the ISO
\* server.  An outcome the operation never gets to is fixed.
Env ==
  {o \in [cb : CbOut, cb2 : CbOut, disc : DiscOut, reg : RegOut] :
     /\ o.cb # OK => o.cb2 = OK
     /\ (o.cb # OK \/ o.cb2 # OK) => o.disc = EIO
     /\ (o.cb # OK \/ o.cb2 # OK \/ o.disc = OK) => o.reg = OK
     /\ server => o.reg = OK}
\* the operations that make fewer calls
EnvCb == {o \in Env : o.cb2 = OK /\ o.disc = EIO /\ o.reg = OK}
EnvCb2 == {o \in Env : o.disc = EIO /\ o.reg = OK}
EnvCbReg == {o \in Env : o.cb2 = OK /\ o.disc = EIO}
EnvStop == {o \in Env : o.cb2 = OK}

\* the program state after a call that ends in state record s
Commit(s) ==
  /\ chan' = s.chan
  /\ ep' = s.ep
  /\ enabling' = s.enabling
  /\ server' = s.server
  /\ groups' = s.groups

Init ==
  /\ chan = [c \in Chan |-> NewChan]
  /\ \E ty \in EpTypes :
       ep = [e \in Ep |-> [state |-> "IDLE", chan |-> NOCHAN,
                           type |-> IF e = "e1" THEN ty ELSE "LOCAL",
                           ids |-> EpIds[e]]]
  /\ enabling = [i \in 1..MaxIsoChan |-> NOCHAN]
  /\ server = FALSE
  /\ groups = [g \in Groups |-> NewGroup]

\* The arguments of Configure and what the capability's config callback
\* returns (found: no channel, or the endpoint's channel).  The peer is
\* configured on connection k1 with the sink capability; a codec the
\* capability lacks and a callback that finds no channel are tried with
\* one choice of the other arguments.
ConfigArgs ==
  {a \in [k : Conn, e : Ep, cp : Caps, codec : Codecs,
          found : Chan \cup {NOCHAN}] :
     /\ a.found \in {NOCHAN, ChanOf[a.e]}
     /\ (a.e # "e1" \/ a.codec # "LC3" \/ a.found = NOCHAN)
          => a.k = "k1" /\ a.cp = "snk"
     /\ a.e # "e1" => a.codec = "LC3" /\ a.found # NOCHAN}

\* the arguments of Reconfigure
ReconfigArgs ==
  {a \in [cp : Caps, codec : Codecs, cb : CbOut] :
     (a.codec # "LC3" \/ a.cb # OK) => a.cp = "snk"}

\* the QoS objects passed for channel c
QosFor(c) == IF c = Subject THEN QosInputs ELSE {GoodQos}

Configure ==
  \E a \in ConfigArgs :
    Commit(bt_audio_chan_config(Cur, a.k, a.e, a.cp, a.codec, a.found).s)

Reconfigure ==
  \E c \in Users("reconfig"), a \in ReconfigArgs :
    Commit(bt_audio_chan_reconfig(Cur, c, a.cp, a.codec, a.cb).s)

SetQoS ==
  \E c \in Users("qos"), o \in EnvCbReg :
    \E q \in QosFor(c) :
      Commit(bt_audio_chan_qos(Cur, c, q, o.cb, o.reg).s)

Enable ==
  \E c \in Users("enable"), o \in EnvCb2 :
    Commit(bt_audio_chan_enable(Cur, c, o.cb, o.cb2).s)

UpdateMetadata ==
  \E c \in Users("metadata"), o \in EnvCb :
    Commit(bt_audio_chan_metadata(Cur, c, o.cb).s)

Disable ==
  \E c \in Users("disable"), o \in Env :
    Commit(bt_audio_chan_disable(Cur, c, o.cb, o.cb2, o.disc, o.reg).s)

Start ==
  \E c \in Users("start"), o \in EnvCb :
    Commit(bt_audio_chan_start(Cur, c, o.cb).s)

Stop ==
  \E c \in Users("stop"), o \in EnvStop :
    Commit(bt_audio_chan_stop(Cur, c, o.cb, o.disc, o.reg).s)

Release ==
  \E c \in Users("release"), cache \in BOOLEAN, cb \in ReleaseOut :
    Commit(bt_audio_chan_release(Cur, c, cache, cb).s)

Reset ==
  \E c \in Users("reset"), term \in TermOut :
    Commit(bt_audio_chan_reset(Cur, c, term))

\* bt_audio_chan_set_state called by the other modules of the stack on a
\* channel that is attached to an endpoint
SetChanState ==
  \E c \in Users("set_state"), st \in ChanStates :
    /\ chan[c].ep # NULL
    /\ Commit(bt_audio_chan_set_state(Cur, c, st))

\* an inbound CIS request delivered by the transport
IsoAccept ==
  \E ids \in AcceptIds :
    Commit(bt_audio_chan_iso_accept(Cur, ids).s)

\* the transport reports that a channel's CIS is disconnected
IsoDisconnected ==
  \E c \in Chan :
    /\ chan[c].iso = "BOUND"
    /\ Commit([Cur EXCEPT !.chan[c].iso = "UNBOUND"])

\* the state of a remote or broadcast endpoint follows what its owner
\* (the peer, the broadcast code) reports
EpNotify ==
  \E e \in Ep, st \in EpStates :
    /\ ep[e].type # "LOCAL"
    /\ ep[e].state # st
    /\ Commit(bt_audio_ep_set_state(Cur, e, st))

Next ==
  \/ Configure
  \/ Reconfigure
  \/ SetQoS
  \/ Enable
  \/ UpdateMetadata
  \/ Disable
  \/ Start
  \/ Stop
  \/ Release
  \/ Reset
  \/ SetChanState
  \/ IsoAccept
  \/ IsoDisconnected
  \/ EpNotify

Spec == Init /\ [][Next]_vars

(***************************************************************************)
(* The QoS checks at their boundaries: SetQoS is called with the QoS        *)
(* objects that differ from GoodQos in at most MaxOffFields fields, each   *)
(* of them at a value next to a limit, on the channel of endpoint e1,      *)
(* which Configure attached with a sink or with a source capability.  A    *)
(* remote endpoint is reported in the states SetQoS is legal in.           *)
(***************************************************************************)
MaxOffFields == 2

QosEdge ==
  [interval |-> {254, 255, 16777215, 16777216},
   framing  |-> {0, 1, 2},
   phy      |-> {0, 1, 7, 8},
   sdu      |-> {4095, 4096},
   latency  |-> {4, 5, 100, 101, 4000, 4001},
   pd       |-> {9, 10, 20, 21}]

\* a field and a value for it
QosEdits == UNION {{<<f, v>> : v \in QosEdge[f]} : f \in DOMAIN QosEdge}

RECURSIVE QosEdited(_)
\* GoodQos after at most n edits
QosEdited(n) ==
  IF n = 0 THEN {GoodQos}
  ELSE LET Q == QosEdited(n - 1) IN
       Q \cup {[q EXCEPT ![a[1]] = a[2]] : q \in Q, a \in QosEdits}

QosWide == QosEdited(MaxOffFields)

\* the outcomes of SetQoS's external calls in which the callback succeeds
EnvReg == {o \in EnvCbReg : o.cb = OK}

SetQoSWide ==
  \E q \in QosWide, c \in Users("start"), o \in EnvReg :
    Commit(bt_audio_chan_qos(Cur, c, q, o.cb, o.reg).s)

\* Configure of the subject channel, on connection k1
ConfigureSubject ==
  \E a \in ConfigArgs :
    /\ ChanOf[a.e] = Subject /\ a.found = Subject
    /\ a.k = "k1" /\ a.cp \in {"snk", "src"}
    /\ Commit(bt_audio_chan_config(Cur, a.k, a.e, a.cp, a.codec, a.found).s)

\* the peer reports its endpoint in Codec Configured or QoS Configured
PeerConfigured ==
  \E e \in Ep, st \in {"CONFIG", "QOS"} :
    /\ ep[e].type # "LOCAL"
    /\ ep[e].state # st
    /\ Commit(bt_audio_ep_set_state(Cur, e, st))

NextQos ==
  \/ ConfigureSubject
  \/ SetQoSWide
  \/ PeerConfigured

SpecQos == Init /\ [][NextQos]_vars

(***************************************************************************)
(* The links: the application owns the channels of the two endpoints and   *)
(* MaxSpare more, links and unlinks any two of them and resets any of      *)
(* them.  Both endpoints are local; a channel is configured on connection  *)
(* k1 with the sink capability and gets the QoS GoodQos; the stack reports *)
(* it Idle or Configured.                                                  *)
(***************************************************************************)
InitLink ==
  /\ chan = [c \in AllChan |-> NewChan]
  /\ ep = [e \in Ep |-> [state |-> "IDLE", chan |-> NOCHAN, type |-> "LOCAL",
                         ids |-> EpIds[e]]]
  /\ enabling = [i \in 1..MaxIsoChan |-> NOCHAN]
  /\ server = FALSE
  /\ groups = [g \in Groups |-> NewGroup]

LinkConfigure ==
  \E e \in Ep :
    Commit(bt_audio_chan_config(Cur, "k1", e, "snk", "LC3", ChanOf[e]).s)

LinkSetQoS ==
  \E c \in Chan, o \in EnvReg :
    Commit(bt_audio_chan_qos(Cur, c, GoodQos, o.cb, o.reg).s)

\* bt_audio_chan_set_state called by the other modules of the stack on a
\* channel that is attached to an endpoint
LinkSetChanState ==
  \E c \in Chan, st \in {"CHAN_IDLE", "CHAN_CONFIGURED"} :
    /\ chan[c].ep # NULL
    /\ Commit(bt_audio_chan_set_state(Cur, c, st))

Link ==
  \E c1 \in AllChan, c2 \in AllChan :
    Commit(bt_audio_chan_link(Cur, c1, c2).s)

Unlink ==
  \E c1 \in AllChan, c2 \in AllChan \cup {NOCHAN} :
    Commit(bt_audio_chan_unlink(Cur, c1, c2).s)

LinkReset ==
  \E c \in AllChan, term \in TermOut :
    Commit(bt_audio_chan_reset(Cur, c, term))

\* GoodQos as another QoS object, with a direction
DirQos(d) ==
  [f \in DOMAIN GoodQos \cup {"dir"} |-> IF f = "dir" THEN d ELSE GoodQos[f]]

\* the QoS passed to bt_audio_cig_create for channel c: none, the
\* channel's own, another object with a valid or an invalid direction
CigQos(c) == {<<>>, chan[c].qos, <<DirQos("INOUT")>>, <<DirQos("NONE")>>}

EnsureGroup ==
  \E c \in Chan, create \in TermOut :
    \E q \in CigQos(c) :
      Commit(bt_audio_cig_create(Cur, c, q, create).s)

TerminateGroup ==
  \E c \in Chan, term \in TermOut :
    Commit(bt_audio_cig_terminate(Cur, c, term).s)

NextLink ==
  \/ LinkConfigure
  \/ LinkSetQoS
  \/ LinkSetChanState
  \/ Link
  \/ Unlink
  \/ LinkReset

SpecLink == InitLink /\ [][NextLink]_vars

(***************************************************************************)
(* The unicast groups: the application creates groups from arrays of its   *)
(* channels and deletes them, creates and terminates the CIG of a channel  *)
(* and resets a channel, while the stack reports the channel of endpoint   *)
(* e1 Idle, Configured or Streaming.                                       *)
(***************************************************************************)
\* the channels the groups are made of: those of the endpoints and one more
GroupChan == Chan \cup {Min(Spare)}

\* the arrays of n distinct channels of GroupChan
Arrays(n) ==
  {a \in [1..n -> GroupChan] : \A i, j \in 1..n : i # j => a[i] # a[j]}

\* the arrays passed to bt_audio_unicast_group_create: those of the
\* channels of GroupChan, in every order, and the array of all channels
ChanArrays ==
  UNION {Arrays(n) : n \in 0..Cardinality(GroupChan)}
  \cup {[i \in 1..Cardinality(AllChan) |-> i]}

\* Configure of the subject channel, the one channel the stack reports in
\* other states than Idle
GroupConfigure ==
  \E e \in Ep :
    /\ ChanOf[e] = Subject
    /\ Commit(bt_audio_chan_config(Cur, "k1", e, "snk", "LC3", Subject).s)

GroupSetChanState ==
  \E c \in Users("set_state"), st \in ChanStates :
    /\ chan[c].ep # NULL
    /\ Commit(bt_audio_chan_set_state(Cur, c, st))

\* the calls of bt_audio_unicast_group_create: an array and a count, no
\* array, no place for the result
CreateArgs ==
  {[chans |-> <<a>>, num_chan |-> n, out |-> TRUE] :
     a \in ChanArrays, n \in 0..(UNICAST_GROUP_STREAM_CNT + 1)}
  \cup {[chans |-> <<>>, num_chan |-> 1, out |-> TRUE],
        [chans |-> <<<<Subject>>>>, num_chan |-> 1, out |-> FALSE]}

CreateGroup ==
  \E a \in CreateArgs :
    /\ a.chans # <<>> => a.num_chan <= Len(a.chans[1])
    /\ Commit(bt_audio_unicast_group_create(Cur, a.chans, a.num_chan,
                                            a.out).s)

DeleteGroup ==
  \E g \in Groups \cup {0}, asserts \in BOOLEAN :
    Commit(bt_audio_unicast_group_delete(Cur, g, asserts).s)

GroupReset ==
  \E c \in Chan, term \in TermOut :
    Commit(bt_audio_chan_reset(Cur, c, term))

NextGroup ==
  \/ GroupConfigure
  \/ GroupSetChanState
  \/ CreateGroup
  \/ DeleteGroup
  \/ EnsureGroup
  \/ TerminateGroup
  \/ GroupReset

SpecGroup == InitLink /\ [][NextGroup]_vars

(***************************************************************************)
(* The listening pool: the operations of Spec on two local endpoints, in   *)
(* the build whose pool has MaxIsoChan slots, where the second listener    *)
(* finds the pool full, and in the build with one slot more, where two     *)
(* listeners hold a slot each.                                             *)
(***************************************************************************)
\* the values of ARRAY_SIZE(enabling) in the two builds
PoolSizes == {MaxIsoChan, MaxIsoChan + 1}

InitPool ==
  /\ chan = [c \in Chan |-> NewChan]
  /\ \E ids2 \in AcceptIds :
       ep = [e \in Ep |-> [state |-> "IDLE", chan |-> NOCHAN, type |-> "LOCAL",
                           ids |-> IF e = "e1" THEN EpIds[e] ELSE ids2]]
  /\ \E n \in PoolSizes : enabling = [i \in 1..n |-> NOCHAN]
  /\ server = FALSE
  /\ groups = [g \in Groups |-> NewGroup]

NextPool ==
  \/ Configure
  \/ Reconfigure
  \/ SetQoS
  \/ Enable
  \/ UpdateMetadata
  \/ Disable
  \/ Start
  \/ Stop
  \/ Release
  \/ Reset
  \/ SetChanState
  \/ IsoAccept
  \/ IsoDisconnected

SpecPool == InitPool /\ [][NextPool]_vars

(***************************************************************************)
(* Properties.  A property of an operation is stated for every call of it  *)
(* in the current state: the operation's operator is applied to Cur with   *)
(* every argument and every outcome of the external calls, and the result  *)
(* (the state after, the returned code, the callbacks invoked) is compared *)
(* with the state before.                                                  *)
(***************************************************************************)
Attached(c) == chan[c].ep # NULL /\ chan[c].cap # NULL

\* the endpoint of c before the call, and its state after the call
MyEp(c) == ep[chan[c].ep]

EpAfter(r, c) == r.s.ep[chan[c].ep].state

InPool(s, c) == \E i \in Slots : s.enabling[i] = c

\* the call changed nothing
Untouched(r) ==
  /\ r.s.chan = chan
  /\ r.s.ep = ep
  /\ r.s.enabling = enabling
  /\ r.s.server = server

\* why a channel for which bt_audio_chan_iso_listen ran is not in the pool:
\* the ISO server could not be registered, no slot is free, or the scan met
\* the entry of another channel with the same connection and identifiers
NotListeningBecause(s, c, reg) ==
  \/ ~server /\ reg # OK
  \/ FreeSlots(s) = {}
  \/ \E i \in Slots : /\ s.enabling[i] \notin {NOCHAN, c}
                      /\ bt_audio_chan_iso_linked(s, s.enabling[i], c)

StopAccepted(c) ==
  Attached(c) /\ MyEp(c).type = "LOCAL" /\ MyEp(c).state = "DISABLING"

\* C1 as claimed: every Stop accepted in Disabling, whatever the disconnect
\* request returns, leaves the endpoint in QoS Configured and the channel
\* in the listening pool.
C1_StopAlwaysReturnsToQos ==
  \A c \in Users("stop"), o \in EnvStop :
    LET r == bt_audio_chan_stop(Cur, c, o.cb, o.disc, o.reg) IN
    (StopAccepted(c) /\ r.ret = OK)
      => EpAfter(r, c) = "QOS" /\ InPool(r.s, c)

\* C1 amended: a Stop accepted in Disabling on a local endpoint moves the
\* endpoint to QoS Configured and runs bt_audio_chan_iso_listen only when
\* bt_audio_chan_disconnect reports an error (no binding, or a refused
\* request); when the disconnect request is accepted the endpoint stays in
\* Disabling and the channel is out of the pool.  After the listen the
\* channel is in the pool unless the registration failed, the pool is full
\* or an entry of a channel with the same connection and identifiers exists.
C1_StopFollowsDisconnect ==
  \A c \in Users("stop"), o \in EnvStop :
    LET r == bt_audio_chan_stop(Cur, c, o.cb, o.disc, o.reg) IN
    (StopAccepted(c) /\ r.ret = OK)
      => IF r.s.disc = OK
           THEN EpAfter(r, c) = "DISABLING" /\ ~InPool(r.s, c)
           ELSE /\ EpAfter(r, c) = "QOS"
                /\ InPool(r.s, c) \/ NotListeningBecause(r.s, c, o.reg)

\* C1 witness: a channel in Disabling whose CIS is bound: a Stop whose
\* disconnect request is refused ends in QoS Configured and listening, one
\* whose request is accepted ends in Disabling
C1_Witness ==
  \E c \in Users("stop") :
    /\ StopAccepted(c)
    /\ chan[c].iso = "BOUND"
    /\ LET r == bt_audio_chan_stop(Cur, c, OK, EIO, OK) IN
       r.ret = OK /\ EpAfter(r, c) = "QOS" /\ InPool(r.s, c)
    /\ LET r == bt_audio_chan_stop(Cur, c, OK, OK, OK) IN
       r.ret = OK /\ EpAfter(r, c) = "DISABLING"

(***************************************************************************)
(* Calls in a state the operation is not legal in.                         *)
(***************************************************************************)
Unicast(c) == Attached(c) /\ MyEp(c).type \in {"LOCAL", "REMOTE"}

\* the legal endpoint states of each operation
Legal ==
  [config   |-> {"IDLE", "CONFIG", "QOS"},
   reconfig |-> {"IDLE", "CONFIG", "QOS"},
   qos      |-> {"CONFIG", "QOS"},
   enable   |-> {"QOS"},
   metadata |-> {"ENABLING", "STREAMING"},
   disable  |-> {"ENABLING", "STREAMING"},
   start    |-> {"ENABLING"},
   stop     |-> {"DISABLING"},
   release  |-> {"CONFIG", "QOS", "ENABLING", "STREAMING", "DISABLING"}]

Illegal(c, op) == Unicast(c) /\ MyEp(c).state \notin Legal[op]

\* the call returned code, invoked no callback and changed nothing
Rejected(r, code) == r.ret = code /\ r.s.cbs = <<>> /\ Untouched(r)

\* the arguments of Configure that pass its argument checks
ValidConfigArgs ==
  {a \in ConfigArgs : CapInfo[a.cp].codec = a.codec /\ HasOp(a.cp, "config")}

\* Configure has no error code: its failure is the absent channel
IllegalRejected ==
  /\ \A a \in ValidConfigArgs :
       (ep[a.e].type \in {"LOCAL", "REMOTE"} /\ ep[a.e].state \notin Legal.config)
         => Rejected(bt_audio_chan_config(Cur, a.k, a.e, a.cp, a.codec,
                                          a.found), NOCHAN)
  /\ \A c \in Users("reconfig"), a \in ReconfigArgs :
       Illegal(c, "reconfig")
         => Rejected(bt_audio_chan_reconfig(Cur, c, a.cp, a.codec, a.cb),
                     EBADMSG)
  /\ \A c \in Users("qos"), o \in EnvCbReg : \A q \in QosFor(c) :
       Illegal(c, "qos")
         => Rejected(bt_audio_chan_qos(Cur, c, q, o.cb, o.reg), EBADMSG)
  /\ \A c \in Users("enable"), o \in EnvCb2 :
       Illegal(c, "enable")
         => Rejected(bt_audio_chan_enable(Cur, c, o.cb, o.cb2), EBADMSG)
  /\ \A c \in Users("metadata"), o \in EnvCb :
       Illegal(c, "metadata")
         => Rejected(bt_audio_chan_metadata(Cur, c, o.cb), EBADMSG)
  /\ \A c \in Users("disable"), o \in Env :
       Illegal(c, "disable")
         => Rejected(bt_audio_chan_disable(Cur, c, o.cb, o.cb2, o.disc,
                                           o.reg), EBADMSG)
  /\ \A c \in Users("start"), o \in EnvCb :
       Illegal(c, "start")
         => Rejected(bt_audio_chan_start(Cur, c, o.cb), EBADMSG)
  /\ \A c \in Users("stop"), o \in EnvStop :
       Illegal(c, "stop")
         => Rejected(bt_audio_chan_stop(Cur, c, o.cb, o.disc, o.reg),
                     EBADMSG)

\* C2 as claimed: every operation called with valid arguments on a unicast
\* endpoint whose state is outside the operation's legal set returns
\* InvalidState, invokes no callback and changes nothing.
C2_IllegalStateIsInvalidState ==
  /\ IllegalRejected
  /\ \A c \in Users("release"), cache \in BOOLEAN, cb \in ReleaseOut :
       Illegal(c, "release")
         => Rejected(bt_audio_chan_release(Cur, c, cache, cb), EBADMSG)

\* C2 amended: every operation called with valid arguments on a unicast
\* endpoint whose state is outside the operation's legal set invokes no
\* callback, changes nothing and returns InvalidState, except Release on a
\* channel whose own state is Idle, which returns AlreadyInState.
C2_IllegalStateRejected ==
  /\ IllegalRejected
  /\ \A c \in Users("release"), cache \in BOOLEAN, cb \in ReleaseOut :
       Illegal(c, "release")
         => Rejected(bt_audio_chan_release(Cur, c, cache, cb),
                     IF chan[c].state = "CHAN_IDLE" THEN EALREADY
                     ELSE EBADMSG)

\* C2 witness: an attached Idle channel on a unicast endpoint in Idle:
\* Start is rejected with InvalidState, Release with AlreadyInState
C2_Witness ==
  \E c \in Users("release") :
    /\ Illegal(c, "start")
    /\ Illegal(c, "release")
    /\ chan[c].state = "CHAN_IDLE"
    /\ Rejected(bt_audio_chan_start(Cur, c, OK), EBADMSG)
    /\ Rejected(bt_audio_chan_release(Cur, c, FALSE, OK), EALREADY)

(***************************************************************************)
(* Enable.                                                                 *)
(***************************************************************************)
\* C3: an Enable that succeeds on a local endpoint in QoS Configured leaves
\* the endpoint in Streaming when the channel is not in the listening pool
\* and its capability is not a source, and in Enabling otherwise.
C3_EnableOutcome ==
  \A c \in Users("enable"), o \in EnvCb2 :
    LET r == bt_audio_chan_enable(Cur, c, o.cb, o.cb2) IN
    (Attached(c) /\ MyEp(c).type = "LOCAL" /\ MyEp(c).state = "QOS"
       /\ r.ret = OK)
      => EpAfter(r, c) =
           IF ~InPool(Cur, c) /\ CapInfo[chan[c].cap].type # "SOURCE"
             THEN "STREAMING" ELSE "ENABLING"

\* C3 witness: a sink channel in QoS Configured that left the pool (its
\* CIS was accepted) is enabled and ends in Streaming
C3_Witness ==
  \E c \in Users("enable") :
    /\ Attached(c) /\ MyEp(c).type = "LOCAL" /\ MyEp(c).state = "QOS"
    /\ ~InPool(Cur, c)
    /\ CapInfo[chan[c].cap].type = "SINK"
    /\ chan[c].iso = "BOUND"
    /\ LET r == bt_audio_chan_enable(Cur, c, OK, OK) IN
       r.ret = OK /\ EpAfter(r, c) = "STREAMING"

OutOfRange(q, pref) ==
  {f \in {"interval", "framing", "phy", "sdu", "latency", "pd"} :
     \/ f = "interval" /\ (q.interval < 255 \/ q.interval > 16777215)
     \/ f = "framing" /\ q.framing \notin {0, 1}
     \/ f = "phy" /\ q.phy \notin 1..7
     \/ f = "sdu" /\ q.sdu > 4095
     \/ f = "latency" /\ (q.latency < 5 \/ q.latency > 4000
                            \/ q.latency > pref.latency)
     \/ f = "pd" /\ (q.pd < pref.pd_min \/ q.pd > pref.pd_max)}

Sentinel ==
  [interval |-> 0, framing |-> 255, phy |-> 0, sdu |-> 65535, latency |-> 0,
   pd |-> 0]

QosLegal(c) == Unicast(c) /\ MyEp(c).state \in {"CONFIG", "QOS"}

\* C5: SetQoS on a unicast endpoint in Codec Configured or QoS Configured
\* returns Unsupported exactly when a field of the QoS is out of range; it
\* then overwrites one out-of-range field, and nothing else, with the
\* field's sentinel, invokes no callback and changes nothing.
C5_QosRanges ==
  \A q \in QosWide, c \in Users("start"), o \in EnvReg :
    LET r == bt_audio_chan_qos(Cur, c, q, o.cb, o.reg)
        bad == OutOfRange(q, CapInfo[chan[c].cap].pref)
    IN QosLegal(c)
         => /\ r.ret = ENOTSUP <=> bad # {}
            /\ bad # {}
                 => /\ \E f \in bad : r.qos = [q EXCEPT ![f] = Sentinel[f]]
                    /\ r.s.cbs = <<>>
                    /\ Untouched(r)
            /\ bad = {} => r.qos = q

\* C5 witness: on a channel in Codec Configured the interval 254 is
\* refused and zeroed, the intervals 255 and 16777215 are accepted
C5_Witness ==
  \E c \in Users("start") :
    /\ QosLegal(c)
    /\ MyEp(c).state = "CONFIG"
    /\ CapInfo[chan[c].cap].pref.latency >= GoodQos.latency
    /\ LET r == bt_audio_chan_qos(Cur, c, [GoodQos EXCEPT !.interval = 254],
                                  OK, OK)
       IN r.ret = ENOTSUP /\ r.qos.interval = 0 /\ Untouched(r)
    /\ bt_audio_chan_qos(Cur, c, [GoodQos EXCEPT !.interval = 255],
                         OK, OK).ret = OK
    /\ bt_audio_chan_qos(Cur, c, [GoodQos EXCEPT !.interval = 16777215],
                         OK, OK).ret = OK

(***************************************************************************)
(* Release and the transition to Idle.                                     *)
(***************************************************************************)
ReleaseLegal(c) ==
  Attached(c) /\ MyEp(c).type = "LOCAL" /\ MyEp(c).state \in Legal.release

\* what the claim says of a Release whose checks passed
ReleaseOutcome(c, cache, cb) ==
  LET r == bt_audio_chan_release(Cur, c, cache, cb) IN
  IF HasOp(chan[c].cap, "release") /\ cb = ENOTCONN
    THEN /\ r.ret = OK
         /\ c \in r.s.idled
         /\ r.s.chan[c].state = "CHAN_IDLE"
         /\ EpAfter(r, c) = MyEp(c).state
  ELSE IF HasOp(chan[c].cap, "release") /\ cb # OK
    THEN r.ret = cb /\ EpAfter(r, c) = MyEp(c).state
  ELSE /\ r.ret = OK
       /\ EpAfter(r, c) = IF cache THEN "CONFIG" ELSE "RELEASING"

\* C6 as claimed: Release on a local endpoint in Codec Configured, QoS
\* Configured, Enabling, Streaming or Disabling returns success and forces
\* the channel to Idle when the callback reports NotConnected, moves the
\* endpoint to Releasing (Codec Configured with cache) when the callback
\* succeeds or is absent, and returns any other callback error with the
\* endpoint's state unchanged.
C6_ReleaseOutcomes ==
  \A c \in Users("release"), cache \in BOOLEAN, cb \in ReleaseOut :
    ReleaseLegal(c) => ReleaseOutcome(c, cache, cb)

\* C6 amended: the three outcomes are those of a Release on a channel whose
\* own state is not Idle; on a channel whose own state is Idle Release
\* returns AlreadyInState, invokes no callback and changes nothing.
C6_ReleaseOutcomesNotIdle ==
  \A c \in Users("release"), cache \in BOOLEAN, cb \in ReleaseOut :
    ReleaseLegal(c)
      => IF chan[c].state = "CHAN_IDLE"
           THEN Rejected(bt_audio_chan_release(Cur, c, cache, cb), EALREADY)
           ELSE ReleaseOutcome(c, cache, cb)

\* C6 witness: a Streaming channel with a release callback: the three
\* outcomes of the callback give the three outcomes of Release
C6_Witness ==
  \E c \in Users("release") :
    /\ ReleaseLegal(c)
    /\ MyEp(c).state = "STREAMING"
    /\ chan[c].state # "CHAN_IDLE"
    /\ HasOp(chan[c].cap, "release")
    /\ LET r == bt_audio_chan_release(Cur, c, FALSE, ENOTCONN) IN
       r.ret = OK /\ c \in r.s.idled /\ EpAfter(r, c) = "STREAMING"
    /\ LET r == bt_audio_chan_release(Cur, c, FALSE, OK) IN
       r.ret = OK /\ EpAfter(r, c) = "RELEASING"
    /\ LET r == bt_audio_chan_release(Cur, c, TRUE, OK) IN
       r.ret = OK /\ EpAfter(r, c) = "CONFIG"
    /\ LET r == bt_audio_chan_release(Cur, c, FALSE, ECB) IN
       r.ret = ECB /\ EpAfter(r, c) = "STREAMING"

\* every channel that state record s saw go to Idle has no references and,
\* unless its endpoint was a broadcast one, no slot of the pool
IdleIsClean(s) ==
  \A c \in s.idled :
    /\ s.chan[c].state = "CHAN_IDLE"
    /\ s.chan[c].conn = NULL
    /\ s.chan[c].cap = NULL
    /\ s.chan[c].codec = NULL
    /\ ~bt_audio_ep_is_broadcast(Cur, chan[c].ep) => ~InPool(s, c)

\* C7: every transition of an attached channel to Idle (set_state with
\* Idle, Release with NotConnected, Reset), from any channel state, leaves
\* the channel without connection, capability and codec and, unless the
\* endpoint is a broadcast one, out of every slot of the listening pool.
C7_IdleClears ==
  \A c \in Users("reset") :
    chan[c].ep # NULL
      => /\ LET s == bt_audio_chan_set_state(Cur, c, "CHAN_IDLE") IN
            c \in s.idled /\ IdleIsClean(s)
         /\ \A cache \in BOOLEAN, cb \in ReleaseOut :
              IdleIsClean(bt_audio_chan_release(Cur, c, cache, cb).s)
         /\ \A term \in TermOut :
              LET s == bt_audio_chan_reset(Cur, c, term) IN
              (chan[c].conn # NULL => c \in s.idled) /\ IdleIsClean(s)

\* C7 witness: a channel that is not Idle and is in the listening pool is
\* reset, and released with NotConnected
C7_Witness ==
  \E c \in Users("reset") :
    /\ Attached(c)
    /\ chan[c].conn # NULL
    /\ chan[c].state # "CHAN_IDLE"
    /\ InPool(Cur, c)
    /\ LET s == bt_audio_chan_reset(Cur, c, OK) IN
       c \in s.idled /\ ~InPool(s, c) /\ s.chan[c].cap = NULL
    /\ LET r == bt_audio_chan_release(Cur, c, FALSE, ENOTCONN) IN
       c \in r.s.idled /\ ~InPool(r.s, c) /\ r.s.chan[c].conn = NULL

(***************************************************************************)
(* Broadcast endpoints.                                                    *)
(***************************************************************************)
BroadcastEp(e) == ep[e].type \in {"BROADCAST_SRC", "BROADCAST_SNK"}

Broadcast(c) == Attached(c) /\ BroadcastEp(chan[c].ep)

\* Reconfigure, SetQoS, Start and Stop on a broadcast endpoint
BroadcastRejected ==
  /\ \A c \in Users("reconfig"), a \in ReconfigArgs :
       Broadcast(c)
         => Rejected(bt_audio_chan_reconfig(Cur, c, a.cp, a.codec, a.cb),
                     EINVAL)
  /\ \A c \in Users("qos"), o \in EnvCbReg : \A q \in QosFor(c) :
       Broadcast(c)
         => Rejected(bt_audio_chan_qos(Cur, c, q, o.cb, o.reg), EINVAL)
  /\ \A c \in Users("start"), o \in EnvCb :
       Broadcast(c) => Rejected(bt_audio_chan_start(Cur, c, o.cb), EINVAL)
  /\ \A c \in Users("stop"), o \in EnvStop :
       Broadcast(c)
         => Rejected(bt_audio_chan_stop(Cur, c, o.cb, o.disc, o.reg), EINVAL)

\* C8 as claimed: Configure, Reconfigure, SetQoS, Start, Stop and Release on
\* a broadcast source or sink endpoint signal InvalidArgument (Configure:
\* return no channel) in every endpoint state, invoke no callback and change
\* nothing.
C8_BroadcastIsInvalidArgument ==
  /\ BroadcastRejected
  /\ \A a \in ValidConfigArgs :
       BroadcastEp(a.e)
         => Rejected(bt_audio_chan_config(Cur, a.k, a.e, a.cp, a.codec,
                                          a.found), NOCHAN)
  /\ \A c \in Users("release"), cache \in BOOLEAN, cb \in ReleaseOut :
       Broadcast(c)
         => Rejected(bt_audio_chan_release(Cur, c, cache, cb), EINVAL)

\* C8 amended: Reconfigure, SetQoS, Start and Stop on a broadcast source or
\* sink endpoint signal InvalidArgument in every endpoint state, invoke no
\* callback and change nothing; so does Release, except that on a channel
\* whose own state is Idle it signals AlreadyInState.  Configure does not
\* look at the endpoint's kind: in Idle, Codec Configured or QoS Configured
\* it invokes the config callback and attaches and returns the channel the
\* callback returns, the endpoint's state unchanged.
C8_BroadcastRejected ==
  /\ BroadcastRejected
  /\ \A c \in Users("release"), cache \in BOOLEAN, cb \in ReleaseOut :
       Broadcast(c)
         => Rejected(bt_audio_chan_release(Cur, c, cache, cb),
                     IF chan[c].state = "CHAN_IDLE" THEN EALREADY
                     ELSE EINVAL)
  /\ \A a \in ValidConfigArgs :
       LET r == bt_audio_chan_config(Cur, a.k, a.e, a.cp, a.codec, a.found)
       IN (BroadcastEp(a.e) /\ ep[a.e].state \in Legal.config)
            => /\ r.ret = a.found
               /\ r.s.cbs = <<"config">>
               /\ r.s.ep[a.e].state = ep[a.e].state
               /\ a.found # NOCHAN
                    => /\ r.s.chan[a.found].ep = a.e
                       /\ r.s.ep[a.e].chan = a.found

\* C8 witness: a channel that is not Idle, on a broadcast endpoint in
\* Enabling: Start and Release are refused with InvalidArgument
C8_Witness ==
  \E c \in Users("start") :
    /\ Broadcast(c)
    /\ MyEp(c).state = "ENABLING"
    /\ chan[c].state # "CHAN_IDLE"
    /\ HasOp(chan[c].cap, "start")
    /\ Rejected(bt_audio_chan_start(Cur, c, OK), EINVAL)
    /\ Rejected(bt_audio_chan_release(Cur, c, FALSE, OK), EINVAL)

(***************************************************************************)
(* Callbacks that fail, callbacks that are absent.                         *)
(***************************************************************************)
\* the last callback the call invoked is name, and it returned an error
Failed(r, name, code) ==
  /\ r.s.cbs # <<>>
  /\ r.s.cbs[Len(r.s.cbs)] = name
  /\ code # OK

\* the call changed nothing but the state of the endpoint of c, now st
UntouchedBut(r, c, st) ==
  /\ r.s.chan = chan
  /\ r.s.ep = [ep EXCEPT ![chan[c].ep].state = st]
  /\ r.s.enabling = enabling
  /\ r.s.server = server

\* the operation's own callback fails (Release: with a code in codes)
OwnCallbackFailure(codes) ==
  /\ \A a \in ValidConfigArgs :
       LET r == bt_audio_chan_config(Cur, a.k, a.e, a.cp, a.codec, a.found)
       IN (r.s.cbs = <<"config">> /\ a.found = NOCHAN)
            => r.ret = NOCHAN /\ Untouched(r)
  /\ \A c \in Users("reconfig"), a \in ReconfigArgs :
       LET r == bt_audio_chan_reconfig(Cur, c, a.cp, a.codec, a.cb) IN
       Failed(r, "reconfig", a.cb) => r.ret = a.cb /\ Untouched(r)
  /\ \A c \in Users("qos"), o \in EnvCbReg : \A q \in QosFor(c) :
       LET r == bt_audio_chan_qos(Cur, c, q, o.cb, o.reg) IN
       Failed(r, "qos", o.cb) => r.ret = o.cb /\ Untouched(r)
  /\ \A c \in Users("enable"), o \in EnvCb2 :
       LET r == bt_audio_chan_enable(Cur, c, o.cb, o.cb2) IN
       Failed(r, "enable", o.cb) => r.ret = o.cb /\ Untouched(r)
  /\ \A c \in Users("metadata"), o \in EnvCb :
       LET r == bt_audio_chan_metadata(Cur, c, o.cb) IN
       Failed(r, "metadata", o.cb) => r.ret = o.cb /\ Untouched(r)
  /\ \A c \in Users("disable"), o \in Env :
       LET r == bt_audio_chan_disable(Cur, c, o.cb, o.cb2, o.disc, o.reg) IN
       Failed(r, "disable", o.cb) => r.ret = o.cb /\ Untouched(r)
  /\ \A c \in Users("start"), o \in EnvCb :
       LET r == bt_audio_chan_start(Cur, c, o.cb) IN
       Failed(r, "start", o.cb) => r.ret = o.cb /\ Untouched(r)
  /\ \A c \in Users("stop"), o \in EnvStop :
       LET r == bt_audio_chan_stop(Cur, c, o.cb, o.disc, o.reg) IN
       Failed(r, "stop", o.cb) => r.ret = o.cb /\ Untouched(r)
  /\ \A c \in Users("release"), cache \in BOOLEAN, cb \in codes :
       LET r == bt_audio_chan_release(Cur, c, cache, cb) IN
       Failed(r, "release", cb) => r.ret = cb /\ Untouched(r)

\* C9 as claimed: whenever the callback an operation invokes (the Start
\* callback inside Enable and the Stop callback inside Disable included)
\* returns an error, the operation returns an error and the endpoint's
\* state, the listening pool and the channel's references are as before.
C9_CallbackErrorChangesNothing ==
  /\ OwnCallbackFailure(ReleaseOut)
  /\ \A c \in Users("enable"), o \in EnvCb2 :
       LET r == bt_audio_chan_enable(Cur, c, o.cb, o.cb2) IN
       Failed(r, "start", o.cb2) => r.ret = o.cb2 /\ Untouched(r)
  /\ \A c \in Users("disable"), o \in Env :
       LET r == bt_audio_chan_disable(Cur, c, o.cb, o.cb2, o.disc, o.reg) IN
       Failed(r, "stop", o.cb2) => r.ret = o.cb2 /\ Untouched(r)

\* C9 amended: when an operation's own callback returns an error the
\* operation returns that error and nothing has changed, except that
\* Release returns success and forces the channel to Idle when its callback
\* reports NotConnected.  When the Start callback run inside Enable (the
\* Stop callback run inside Disable) returns an error, Enable (Disable)
\* returns that error with the endpoint already in Enabling (Disabling) and
\* nothing else changed.
C9_CallbackError ==
  /\ OwnCallbackFailure(ReleaseOut \ {ENOTCONN})
  /\ \A c \in Users("release"), cache \in BOOLEAN :
       LET r == bt_audio_chan_release(Cur, c, cache, ENOTCONN) IN
       Failed(r, "release", ENOTCONN)
         => r.ret = OK /\ c \in r.s.idled /\ r.s.chan[c].state = "CHAN_IDLE"
  /\ \A c \in Users("enable"), o \in EnvCb2 :
       LET r == bt_audio_chan_enable(Cur, c, o.cb, o.cb2) IN
       Failed(r, "start", o.cb2)
         => r.ret = o.cb2 /\ UntouchedBut(r, c, "ENABLING")
  /\ \A c \in Users("disable"), o \in Env :
       LET r == bt_audio_chan_disable(Cur, c, o.cb, o.cb2, o.disc, o.reg) IN
       Failed(r, "stop", o.cb2)
         => r.ret = o.cb2 /\ UntouchedBut(r, c, "DISABLING")

\* C9 witness: a sink channel in QoS Configured and out of the pool: an
\* Enable whose callback fails changes nothing, one whose Start callback
\* fails leaves the endpoint in Enabling
C9_Witness ==
  \E c \in Users("enable") :
    /\ Attached(c) /\ MyEp(c).type = "LOCAL" /\ MyEp(c).state = "QOS"
    /\ LET r == bt_audio_chan_enable(Cur, c, ECB, OK) IN
       r.s.cbs = <<"enable">> /\ r.ret = ECB /\ Untouched(r)
    /\ LET r == bt_audio_chan_enable(Cur, c, OK, ECB) IN
       /\ r.s.cbs = <<"enable", "start">>
       /\ r.ret = ECB
       /\ EpAfter(r, c) = "ENABLING"

\* the current state with the capability of channel c replaced: "snk" has
\* every callback, "lean" and "bare" lack callbacks and are sinks with the
\* same codec and preferences
Twin(c, cp) == [Cur EXCEPT !.chan[c].cap = cp]

Twinned(c) == Attached(c) /\ chan[c].cap \in {"snk", "lean", "bare"}

\* the same returned code, endpoint states and listening pool
SameEffect(r1, r2) ==
  /\ r1.ret = r2.ret
  /\ r1.s.ep = r2.s.ep
  /\ r1.s.enabling = r2.s.enabling

\* the outcomes in which every callback succeeds
EnvOk == {o \in Env : o.cb = OK /\ o.cb2 = OK}

\* Reconfigure, Enable, UpdateMetadata, Disable, Start, Stop and Release
\* with the callbacks absent and with the callbacks succeeding
AbsentIsSuccess ==
  /\ \A c \in Users("reconfig"), codec \in Codecs :
       Attached(c)
         => SameEffect(bt_audio_chan_reconfig(Cur, c, "lean", codec, OK),
                       bt_audio_chan_reconfig(Cur, c, "snk", codec, OK))
  /\ \A c \in Users("enable"), o \in EnvOk :
       Twinned(c)
         => /\ SameEffect(
                 bt_audio_chan_enable(Twin(c, "lean"), c, o.cb, o.cb2),
                 bt_audio_chan_enable(Twin(c, "snk"), c, o.cb, o.cb2))
            /\ SameEffect(
                 bt_audio_chan_metadata(Twin(c, "lean"), c, o.cb),
                 bt_audio_chan_metadata(Twin(c, "snk"), c, o.cb))
            /\ SameEffect(
                 bt_audio_chan_disable(Twin(c, "lean"), c, o.cb, o.cb2,
                                       o.disc, o.reg),
                 bt_audio_chan_disable(Twin(c, "snk"), c, o.cb, o.cb2,
                                       o.disc, o.reg))
            /\ SameEffect(
                 bt_audio_chan_start(Twin(c, "lean"), c, o.cb),
                 bt_audio_chan_start(Twin(c, "snk"), c, o.cb))
            /\ SameEffect(
                 bt_audio_chan_stop(Twin(c, "lean"), c, o.cb, o.disc, o.reg),
                 bt_audio_chan_stop(Twin(c, "snk"), c, o.cb, o.disc, o.reg))
            /\ \A cache \in BOOLEAN :
                 SameEffect(
                   bt_audio_chan_release(Twin(c, "lean"), c, cache, o.cb),
                   bt_audio_chan_release(Twin(c, "snk"), c, cache, o.cb))

NoLinkWith(s, c) ==
  /\ s.chan[c].links = {}
  /\ \A d \in DOMAIN s.chan : c \notin s.chan[d].links

\* C11 as stated: bt_audio_chan_reset, called on any channel, in any
\* channel state, with any number of peers and whatever the termination of
\* the CIG returns, leaves the channel Idle, without a link in either
\* direction and out of the listening pool.
C11_ResetClearsLinks ==
  \A c \in DOMAIN chan, term \in TermOut :
    LET s == bt_audio_chan_reset(Cur, c, term) IN
    /\ s.chan[c].state = "CHAN_IDLE"
    /\ NoLinkWith(s, c)
    /\ ~InPool(s, c)

(***************************************************************************)
(* C12.  Link and Unlink, called twice.                                    *)
(***************************************************************************)
\* the link sets of all channels are the same in s and t
SameLinks(s, t) == \A c \in DOMAIN s.chan : s.chan[c].links = t.chan[c].links

BothIdle(a, b) == chan[a].state = "CHAN_IDLE" /\ chan[b].state = "CHAN_IDLE"

\* each of the two channels is in the other's link set
Paired(s, a, b) == b \in s.chan[a].links /\ a \in s.chan[b].links

\* C12: Link(a, b) returns InvalidArgument unless both channels are Idle,
\* and a Link that fails changes no link set.  On two Idle channels of
\* which a does not hold b, Link(a, b) succeeds and puts each into the
\* other's link set, and Link(a, b) called again right after returns
\* AlreadyInState and changes no link set.  On two Idle channels that hold
\* each other, Unlink(a, b) succeeds and takes each out of the other's link
\* set, and Unlink(a, b) called again right after returns NotFound and
\* changes no link set.
C12_LinkUnlinkTwice ==
  \A a \in DOMAIN chan, b \in DOMAIN chan :
    LET l1 == bt_audio_chan_link(Cur, a, b)
        l2 == bt_audio_chan_link(l1.s, a, b)
        u1 == bt_audio_chan_unlink(Cur, a, b)
        u2 == bt_audio_chan_unlink(u1.s, a, b)
    IN /\ ~BothIdle(a, b) => l1.ret = EINVAL
       /\ l1.ret # OK => SameLinks(l1.s, Cur)
       /\ (BothIdle(a, b) /\ a # b /\ b \notin chan[a].links)
            => /\ l1.ret = OK
               /\ Paired(l1.s, a, b)
               /\ l2.ret = EALREADY
               /\ SameLinks(l2.s, l1.s)
       /\ (BothIdle(a, b) /\ a # b /\ Paired(Cur, a, b))
            => /\ u1.ret = OK
               /\ b \notin u1.s.chan[a].links
               /\ a \notin u1.s.chan[b].links
               /\ u2.ret = ENOENT
               /\ SameLinks(u2.s, u1.s)

\* C12 witness: two Idle channels hold each other after a Link, so that a
\* second Link is refused and an Unlink followed by a second one is not
\* found, while a third channel is not Idle and cannot be linked
C12_Witness ==
  \E a \in DOMAIN chan, b \in DOMAIN chan, c \in DOMAIN chan :
    /\ a # b /\ BothIdle(a, b) /\ Paired(Cur, a, b)
    /\ bt_audio_chan_link(Cur, a, b).ret = EALREADY
    /\ bt_audio_chan_unlink(Cur, a, b).ret = OK
    /\ bt_audio_chan_unlink(bt_audio_chan_unlink(Cur, a, b).s, a, b).ret
         = ENOENT
    /\ chan[c].state # "CHAN_IDLE"
    /\ bt_audio_chan_link(Cur, a, c).ret = EINVAL

(***************************************************************************)
(* C13.  Unlink with no target.                                            *)
(***************************************************************************)
\* C13 as stated: Unlink(a, none) on an Idle channel whose peers are all
\* Idle reports success and leaves a's link set empty and a in no former
\* peer's link set, whatever the number of peers.
C13_UnlinkAllSucceeds ==
  \A a \in DOMAIN chan :
    (/\ chan[a].state = "CHAN_IDLE"
     /\ \A p \in chan[a].links : chan[p].state = "CHAN_IDLE")
      => LET r == bt_audio_chan_unlink(Cur, a, NOCHAN) IN
         /\ r.ret = OK
         /\ r.s.chan[a].links = {}
         /\ \A p \in chan[a].links : a \notin r.s.chan[p].links

(***************************************************************************)
(* C14.  Two channels with the same identifiers start listening.           *)
(***************************************************************************)
\* channel x holds a slot, channel c none, both are attached and their
\* endpoints carry the same (CIG id, CIS id)
ListensBeside(c, x) ==
  /\ x # c
  /\ chan[c].ep # NULL /\ chan[x].ep # NULL
  /\ ep[chan[c].ep].ids = ep[chan[x].ep].ids
  /\ InPool(Cur, x) /\ ~InPool(Cur, c)

\* the slots c and x hold in s
SlotsOf(s, c, x) == {i \in Slots : s.enabling[i] \in {c, x}}

Matching(ids) ==
  {i \in Slots : enabling[i] # NOCHAN /\ ep[chan[enabling[i]].ep].ids = ids}

C16_DisconnectStopsListening ==
  \A c \in DOMAIN chan, disc \in DiscOut :
    LET r == bt_audio_chan_disconnect(Cur, c, disc) IN
    /\ ~InPool(r.s, c)
    /\ \A i \in Slots : enabling[i] # c => r.s.enabling[i] = enabling[i]
    /\ r.s.ep = ep
    /\ r.s.chan = chan
    /\ IF chan[c].iso = "BOUND" THEN r.ret = disc /\ r.s.disc = disc
       ELSE r.ret = ENOTCONN /\ r.s.disc = ENOTCONN

\* C16 witness: a channel that listens and has no bound CIS is taken out of
\* the pool with NotConnected, and for a channel that does not listen and
\* has a bound CIS the request is issued
C16_Witness ==
  \E c \in Chan, d \in Chan :
    /\ InPool(Cur, c) /\ chan[c].iso # "BOUND"
    /\ LET r == bt_audio_chan_disconnect(Cur, c, OK) IN
       r.ret = ENOTCONN /\ ~InPool(r.s, c)
    /\ ~InPool(Cur, d) /\ chan[d].iso = "BOUND"
    /\ bt_audio_chan_disconnect(Cur, d, EIO).ret = EIO

(***************************************************************************)
(* C17.  A CreateGroup that fails.                                         *)
(***************************************************************************)
\* the calls of CreateArgs whose count is within the array
CreateCalls ==
  {a \in CreateArgs : a.chans # <<>> => a.num_chan <= Len(a.chans[1])}

CreateOf(a) ==
  bt_audio_unicast_group_create(Cur, a.chans, a.num_chan, a.out)

\* the call passes an array and a place for the result
WellFormed(a) == a.out /\ a.chans # <<>>

\* one of the first num_chan channels of the array is neither Idle nor
\* Configured
HasBusyChan(a) ==
  \E i \in 1..a.num_chan : ~GroupMember(chan[a.chans[1][i]].state)

\* C17: a bt_audio_unicast_group_create that fails hands back no group and
\* leaves every group, and the rest of the state, as it was.  A count above
\* UNICAST_GROUP_STREAM_CNT gives InvalidArgument; otherwise a pool without
\* a free group gives NoResources (-ENOMEM); otherwise a channel that is
\* neither Idle nor Configured, at any position within the count, gives
\* AlreadyInState, the channels added before it being removed again.
C17_FailedCreateChangesNothing ==
  \A a \in CreateCalls :
    LET r == CreateOf(a) IN
    /\ r.ret # OK => r.group = 0 /\ r.s = Cur
    /\ WellFormed(a) =>
         IF a.num_chan > UNICAST_GROUP_STREAM_CNT THEN r.ret = EINVAL
         ELSE IF FreeGroup(Cur) = 0 THEN r.ret = ENOMEM
         ELSE IF HasBusyChan(a) THEN r.ret = EALREADY
         ELSE r.ret = OK

\* C17 witness: with one group taken and one free, an array whose first
\* channel is Idle and whose second is Streaming is refused with
\* AlreadyInState and the free group is still empty, and an array of more
\* channels than a group takes is refused with InvalidArgument
C17_Witness ==
  \E a \in CreateCalls, b \in CreateCalls :
    /\ \E g \in Groups : groups[g].chans # {}
    /\ FreeGroup(Cur) # 0
    /\ WellFormed(a) /\ a.num_chan = 2
    /\ chan[a.chans[1][1]].state = "CHAN_IDLE"
    /\ chan[a.chans[1][2]].state = "CHAN_STREAMING"
    /\ CreateOf(a).ret = EALREADY
    /\ CreateOf(a).s.groups[FreeGroup(Cur)].chans = {}
    /\ WellFormed(b) /\ b.num_chan > UNICAST_GROUP_STREAM_CNT
    /\ CreateOf(b).ret = EINVAL

(***************************************************************************)
(* C18.  CreateGroup with an empty list.                                   *)
(***************************************************************************)
\* C18 as stated: bt_audio_unicast_group_create with an array and the
\* count 0 returns InvalidArgument, hands back no group and takes no
\* group of the pool; and of two calls that succeed one after the other
\* the second is not handed the group of the first.
C18_EmptyListRejected ==
  \A a \in CreateCalls :
    LET r == CreateOf(a) IN
    /\ (WellFormed(a) /\ a.num_chan = 0)
         => r.ret = EINVAL /\ r.group = 0 /\ r.s.groups = groups
    /\ \A b \in CreateCalls :
         LET r2 == bt_audio_unicast_group_create(r.s, b.chans, b.num_chan,
                                                 b.out)
         IN (r.ret = OK /\ r2.ret = OK) => r2.group # r.group

(***************************************************************************)
(* C19.  DeleteGroup.                                                      *)
(***************************************************************************)
\* some member of group g is neither Idle nor Configured
HasBusyMember(g) == \E c \in groups[g].chans : ~GroupMember(chan[c].state)

\* group g is as zero-initialised in s and the other groups are as they were
Freed(s, g) ==
  /\ s.groups[g] = NewGroup
  /\ \A h \in Groups \ {g} : s.groups[h] = groups[h]

C20_LinksSymmetric ==
  \A a \in DOMAIN chan, b \in DOMAIN chan :
    /\ (b \in chan[a].links) <=> (a \in chan[b].links)
    /\ a \notin chan[a].links

(***************************************************************************)
(* C21.  The entries of the listening pool and the identifiers.            *)
(***************************************************************************)
\* the identifiers of the channel in slot i
IdsOfSlot(i) == ep[chan[enabling[i]].ep].ids

\* C21: in every reachable state no two occupied slots of the listening
\* pool refer to channels whose endpoints carry the same (CIG id, CIS id),
\* whatever connections the channels belong to.
C21_OneEntryPerIds ==
  \A i \in Slots, j \in Slots :
    (i # j /\ enabling[i] # NOCHAN /\ enabling[j] # NOCHAN)
      => IdsOfSlot(i) # IdsOfSlot(j)

(***************************************************************************)
(* C22.  bt_audio_chan_iso_listen for a channel in the pool and for a new  *)
(* one.                                                                    *)
(***************************************************************************)
\* another channel holds a slot and its endpoint carries c's identifiers
SharesIds(c) ==
  \E i \in Slots : /\ enabling[i] \notin {NOCHAN, c}
                   /\ ep[chan[enabling[i]].ep].ids = ep[chan[c].ep].ids

\* another channel of c's connection holds a slot and its endpoint carries
\* c's identifiers
SharesConnAndIds(c) ==
  \E i \in Slots : /\ enabling[i] \notin {NOCHAN, c}
                   /\ chan[enabling[i]].conn = chan[c].conn
                   /\ ep[chan[enabling[i]].ep].ids = ep[chan[c].ep].ids

\* c holds at most one slot in s
OneSlot(s, c) ==
  \A i \in Slots, j \in Slots :
    (s.enabling[i] = c /\ s.enabling[j] = c) => i = j

\* the pool of s is the current pool with c in the first free slot
TookFirstFree(s, c) ==
  s.enabling = [enabling EXCEPT ![Min(FreeSlots(Cur))] = c]

\* the call changed nothing but the link sets of c and x
UntouchedButLinks(r, c, x) ==
  /\ r.s.enabling = enabling
  /\ r.s.ep = ep
  /\ r.s.server = server
  /\ \A a \in Chan :
       /\ [r.s.chan[a] EXCEPT !.links = {}] = [chan[a] EXCEPT !.links = {}]
       /\ a \notin {c, x} => r.s.chan[a].links = chan[a].links

\* C22 as stated: StartListening for a channel already in the pool
\* succeeds and changes nothing, no channel ever occupies more than one
\* slot, and StartListening for a channel that is not in the pool, with no
\* entry that shares its identifiers, takes the first free slot, or
\* signals NoResources and leaves the pool unchanged when no slot is free.
C22_ListenIdempotent ==
  \A c \in Chan, reg \in RegOut :
    Attached(c)
      => LET r == bt_audio_chan_iso_listen(Cur, c, reg) IN
         /\ OneSlot(Cur, c) /\ OneSlot(r.s, c)
         /\ InPool(Cur, c) => (r.ret = OK /\ Untouched(r))
         /\ (~InPool(Cur, c) /\ ~SharesIds(c))
              => IF FreeSlots(Cur) # {}
                   THEN r.ret = OK /\ TookFirstFree(r.s, c)
                   ELSE r.ret = ENOSPC /\ r.s.enabling = enabling

\* the channel of the first slot before c's own that holds a channel of
\* c's connection with c's identifiers, or NOCHAN
EarlierPeer(c) ==
  LET own == Min({i \in Slots : enabling[i] = c})
      hit == {i \in Slots : /\ i < own
                            /\ enabling[i] # NOCHAN
                            /\ chan[enabling[i]].conn = chan[c].conn
                            /\ ep[chan[enabling[i]].ep].ids
                                 = ep[chan[c].ep].ids}
  IN IF hit = {} THEN NOCHAN ELSE enabling[Min(hit)]

\* C22 amended: no channel ever occupies more than one slot.
\* StartListening returns the error of the registration of the acceptor
\* and changes nothing when the acceptor is not registered yet and its
\* registration fails.  Otherwise, for a channel already in the pool it
\* succeeds and leaves the pool unchanged; it changes nothing at all
\* unless a slot before the channel's own holds a channel of the same
\* connection with the same identifiers, whom it links to the channel if
\* both are Idle at channel level and not linked yet.  For a channel that
\* is not in the pool, with no entry of the same connection that shares
\* its identifiers, it takes the first free slot and changes nothing
\* else, or signals NoResources and leaves the pool unchanged when no slot
\* is free.
C22_ListenOnceRegistered ==
  \A c \in Chan, reg \in RegOut :
    Attached(c)
      => LET r == bt_audio_chan_iso_listen(Cur, c, reg) IN
         /\ OneSlot(Cur, c) /\ OneSlot(r.s, c)
         /\ IF ~server /\ reg # OK
              THEN r.ret = reg /\ Untouched(r)
            ELSE IF InPool(Cur, c)
              THEN LET x == EarlierPeer(c) IN
                   /\ r.ret = OK
                   /\ IF x # NOCHAN /\ BothIdle(x, c) /\ c \notin chan[x].links
                        THEN UntouchedButLinks(r, c, x) /\ Paired(r.s, x, c)
                        ELSE Untouched(r)
            ELSE ~SharesConnAndIds(c)
                   => IF FreeSlots(Cur) # {}
                        THEN /\ r.ret = OK
                             /\ TookFirstFree(r.s, c)
                             /\ r.s.chan = chan /\ r.s.ep = ep
                        ELSE r.ret = ENOSPC /\ r.s.enabling = enabling

\* C22 witness: the pool is full, one of its channels listens again and
\* nothing changes, and a channel that is not in it, configured for another
\* CIS, is refused with ENOSPC
C22_Witness ==
  \E c \in Chan, x \in Chan :
    /\ Attached(c) /\ Attached(x)
    /\ InPool(Cur, c) /\ ~InPool(Cur, x) /\ ~SharesIds(x)
    /\ FreeSlots(Cur) = {}
    /\ LET r == bt_audio_chan_iso_listen(Cur, c, OK) IN
         r.ret = OK /\ Untouched(r)
    /\ LET r == bt_audio_chan_iso_listen(Cur, x, OK) IN
         r.ret = ENOSPC /\ r.s.enabling = enabling

(***************************************************************************)
(* C23.  Endpoints that are not local.                                     *)
(***************************************************************************)
\* the call left the state of endpoint e as it was and put no channel in a
\* slot of the pool
EpStateKept(r, e) ==
  /\ r.s.ep[e].state = ep[e].state
  /\ \A i \in Slots : r.s.enabling[i] \in {enabling[i], NOCHAN}

NotLocal(c) == Attached(c) /\ MyEp(c).type # "LOCAL"

\* C23: on an endpoint that is not local (remote unicast, broadcast source,
\* broadcast sink) every Configure, Reconfigure, SetQoS, Enable,
\* UpdateMetadata, Disable, Start, Stop and Release, successful or failing,
\* leaves the endpoint's protocol state as it was and adds no entry to the
\* listening pool.
C23_NotLocalStateKept ==
  /\ \A a \in ConfigArgs :
       ep[a.e].type # "LOCAL"
         => EpStateKept(bt_audio_chan_config(Cur, a.k, a.e, a.cp, a.codec,
                                             a.found), a.e)
  /\ \A c \in Users("reconfig"), a \in ReconfigArgs :
       NotLocal(c)
         => EpStateKept(bt_audio_chan_reconfig(Cur, c, a.cp, a.codec, a.cb),
                        chan[c].ep)
  /\ \A c \in Users("qos"), o \in EnvCbReg :
       NotLocal(c)
         => \A q \in QosFor(c) :
              EpStateKept(bt_audio_chan_qos(Cur, c, q, o.cb, o.reg),
                          chan[c].ep)
  /\ \A c \in Users("enable"), o \in Env :
       NotLocal(c)
         => /\ EpStateKept(bt_audio_chan_enable(Cur, c, o.cb, o.cb2),
                           chan[c].ep)
            /\ EpStateKept(bt_audio_chan_metadata(Cur, c, o.cb), chan[c].ep)
            /\ EpStateKept(bt_audio_chan_disable(Cur, c, o.cb, o.cb2, o.disc,
                                                 o.reg), chan[c].ep)
            /\ EpStateKept(bt_audio_chan_start(Cur, c, o.cb), chan[c].ep)
            /\ EpStateKept(bt_audio_chan_stop(Cur, c, o.cb, o.disc, o.reg),
                           chan[c].ep)
  /\ \A c \in Users("release"), cache \in BOOLEAN, cb \in ReleaseOut :
       NotLocal(c)
         => EpStateKept(bt_audio_chan_release(Cur, c, cache, cb), chan[c].ep)

\* C23 witness: SetQoS succeeds on a remote endpoint in Codec Configured,
\* the endpoint stays in Codec Configured and the channel out of the pool;
\* Release succeeds on it and the endpoint stays in Codec Configured
C23_Witness ==
  \E c \in Users("qos") :
    /\ NotLocal(c)
    /\ MyEp(c).type = "REMOTE"
    /\ MyEp(c).state = "CONFIG"
    /\ HasOp(chan[c].cap, "qos") /\ HasOp(chan[c].cap, "release")
    /\ ~InPool(Cur, c)
    /\ LET r == bt_audio_chan_qos(Cur, c, GoodQos, OK, OK) IN
       /\ r.ret = OK
       /\ r.s.chan[c].qos = <<GoodQos>>
       /\ EpAfter(r, c) = "CONFIG"
       /\ ~InPool(r.s, c)
    /\ LET r == bt_audio_chan_release(Cur, c, FALSE, OK) IN
       r.ret = OK /\ EpAfter(r, c) = "CONFIG"

(***************************************************************************)
(* C24.  The assertion of bt_audio_unicast_group_delete.                   *)
(***************************************************************************)
\* group g is in use and every channel of it is Idle or Configured
MembersAtRest(g) ==
  /\ groups[g].chans # {}
  /\ \A c \in groups[g].chans : GroupMember(chan[c].state)

\* C24: in every state reachable through CreateGroup, Connect/EnsureGroup,
\* TerminateGroup, Reset and DeleteGroup, a unicast group whose members
\* are all Idle or Configured holds no CIG, so the assertion of
\* DeleteGroup never fails.
C24_CigTornDown ==
  \A g \in Groups :
    MembersAtRest(g)
      => /\ groups[g].cig = NOCHAN
         /\ bt_audio_unicast_group_delete(Cur, g, TRUE).ret # PANIC

====
